---- MODULE Spec2Model ----
(***************************************************************************)
(* Exam server of s-nav: the FTP-like control protocol.                    *)
(*                                                                         *)
(*   Spec          the lock-protected login protocol of                    *)
(*                 src/server/protocol_handlers.py (USER / PASS / QUIT),   *)
(*                 one worker per control connection, with the exam.       *)
(*   SpecReclaim   the same logins for one identity while clients close    *)
(*                 or reset their connections.                             *)
(*   SpecRace      connections racing USER then PASS for an identity.      *)
(*   SpecTransfer  one session with PASV / LIST / STOR / RETR.             *)
(*   SpecLegacy    the inline server of src/server.py.                     *)
(*   SpecRoundTrip one send_file_data / receive_file_data exchange.        *)
(*   SpecDataChannel  the data port of one upload, from bind to close.     *)
(*   SpecTimer     the countdown of src/server.py beside its sessions.     *)
(*   SpecExtend    one exam that is extended or unlocked.                  *)
(*   SpecLines     reads of the control channel that hold several lines.   *)
(*   SpecSession   sessions sending PING and unknown keywords between      *)
(*                 their logins.                                           *)
(*   SpecPassive   the passive-mode announce formatted and parsed back.    *)
(*   SpecGame      the pure functions of src/app/game/logic.py.            *)
(*   SpecLockFree  the logins of src/protocol_handlers.py, which takes no  *)
(*                 lock.                                                   *)
(*   SpecExchange  send_file_data against receive_file_data with any       *)
(*                 expected size, and the end of handle_retr.              *)
(*   SpecLobby     LobbyManager of src/app/game/manager.py; SpecLobbyFair  *)
(*                 adds the passing of time and players who keep guessing. *)
(***************************************************************************)
EXTENDS Integers, Sequences, FiniteSets, TLC

(***************************************************************************)
(* Bounds of the model.                                                    *)
(***************************************************************************)
NumConns == 3
NumActive == 2
MaxCmds == 4
MaxTicks == 1
TimeStep == 31
ExamMinutes == 1
MaxBinds == 2
MaxShortReads == 2
MaxPeers == 2
MaxStarts == 2
MaxExtends == 1
MaxLines == 2
MaxPosition == 8
MaxPlayers == 2
MaxLobbyTicks == 2

(***************************************************************************)
(* Program constants.                                                      *)
(***************************************************************************)
pending_login_timeout == 30
max_file_size_mb == 50
MAX_FILE_SIZE == max_file_size_mb * 1024 * 1024
DATA_PORT_MIN == 49152
DATA_PORT_MAX == 65535
MinBuffer == 65536
ListenBacklog == 1
SyncEvery == 30
SecretLength == 4
ROUND_DURATION_SECONDS == 100
MAX_ROUNDS == 10
NO_MATCH_BONUS_POINTS == 2
BASE_CORRECT_POINTS == 50
CORRECT_DECAY_PER_ROUND == 3
MIN_CORRECT_POINTS == 10
GuessLength == 4

Conns == 1..NumConns
\* The connections whose clients act in Spec and SpecReclaim.
Active == 1..NumActive
Identities == {"415576", "415577"}
Secrets == {"good", "bad"}
UNKNOWN == "Bilinmiyor"
NoConn == 0
NoUser == "None"
NoPending == [conn |-> NoConn, ts |-> 0]
\* No file exchange in progress.
NoError == [expected_size |-> 0, actual_size |-> 0]
NoRT == [total |-> 0, sbuf |-> 0, rbuf |-> 0, sent |-> 0, spc |-> "idle",
         sret |-> 0, wire |-> <<>>, closed |-> FALSE, received |-> 0,
         data |-> <<>>, rpc |-> "idle", shorts |-> 0, sfail |-> FALSE,
         expected |-> 0, partial |-> 0, serr |-> NoError, rerr |-> NoError,
         eof |-> FALSE, retr |-> <<>>]
\* No data-channel socket yet.
NoDC == [lsn |-> "none", backlog |-> 0, accepts |-> 0, peers |-> 0,
         phase |-> "idle"]
\* The teacher's window before any exam: no countdown, nothing scheduled.
NoTM == [timer_running |-> FALSE, after |-> 0, gui |-> "idle", snap |-> {},
         starts |-> 0, extends |-> 0, pushed |-> 0,
         time_up |-> [i \in Identities |-> 0]]
\* No entry has a last activity; no function has been called.
NoActivity == [i \in Identities |-> [at |-> 0, by |-> NoConn]]
NoCall == [fn |-> "none"]
\* LobbyManager(): no lobby, no player.
Players == 1..MaxPlayers
NoPlayer == [joined |-> FALSE, score |-> 0, is_spectator |-> FALSE,
             has_guessed |-> FALSE, has_solved |-> FALSE]
NoLobby == [status |-> "none", owner_id |-> 0, secret_number |-> <<>>,
            round_no |-> 0, round_deadline |-> 0,
            players |-> [p \in Players |-> NoPlayer], clock |-> 0,
            result |-> <<>>]
\* Nothing read yet.
NoRead == [c |-> NoConn, lines |-> <<>>, dispatched |-> <<>>]
NoArgs == [nparts |-> 0, name |-> "", valid |-> TRUE, size |-> 0]
NoEffects == [bind |-> FALSE, accept |-> FALSE, read |-> FALSE, save |-> FALSE]
DataCommands == {"PASV", "LIST", "STOR", "RETR"}
\* The question files on disk, and the names a client asks for.
QuestionFiles == {"soru.pdf"}
RetrNames == {"soru.pdf", "yok.pdf"}
StorNames == {"ans.txt"}
\* Declared sizes and the bytes a client delivers on the data channel.
Sizes == {0, 2, MAX_FILE_SIZE, MAX_FILE_SIZE + 1}
Delivered == {1, MAX_FILE_SIZE}
Endings == {"close", "stall", "reset"}
Ports == {DATA_PORT_MIN, DATA_PORT_MAX}

R220 == "220"
R230 == "230 User logged in, proceed."
R331 == "331 Password required."
R221 == "221 Goodbye."
R501 == "501 Syntax error in parameters or arguments."
R503 == "503 Bad sequence of commands. Use USER first."
R530 == "530 Login incorrect."
R530Gate == "530 Please login with USER and PASS."
RZaten == "550 ZATEN_BAGLI"
RGirisYasak == "550 SINAV_BASLADI_GIRIS_YASAK"
RYuklemeYasak == "550 SINAV_BASLAMADI_YUKLEME_YASAK"
RIndirmeYasak == "550 SINAV_BASLAMADI_INDIRME_YASAK"
RDataList == "DATA_LIST:"
RListFailed == "550 Dosya listesi alinamadi"
R227 == "227 Entering Passive Mode"
R150 == "150 Opening binary mode data connection"
RReady == "READY"
R226 == "226 Transfer complete."
RTooLarge == "550 File too large"
RCantOpen == "550 Can't open data connection."
RDataTimeout == "550 Data baglantisi zaman asimina ugradi"
RYarim == "550 Transfer yarim kaldi"
RKaydetme == "550 Dosya kaydetme hatasi"
RBadSize == "550 Gecersiz dosya boyutu"
RYukleme == "550 Yukleme hatasi"
RNotFound == "550 File not found."
RSync == "CMD:SYNC"
SendFailed == "SEND_FAILED"
\* Reply lines of src/server.py.
R530Eksik == "530 Eksik bilgi. LOGIN <no> <sifre>"
R230Legacy == "230 Giris Basarili"
R530Hatali == "530 Hatali numara veya sifre"
R530Once == "530 Once giris yapin"
REksikParam == "550 Eksik parametre"
RCokBuyuk == "550 Dosya cok buyuk"
RReadyUpload == "READY_TO_UPLOAD"
R226Legacy == "226 Transfer tamamlandi"
RPong == "PONG"
R500 == "500 Bilinmeyen komut"

VARIABLES
    connected_students,   \* Identity Registry: identity -> connection handle
    pending_logins,       \* Pending-Login Registry: identity -> (conn, timestamp)
    exam_started,         \* Exam Session started flag
    exam_time_remaining,  \* Exam Session remaining seconds
    now,                  \* time.time(), in seconds
    sock,                 \* state of each control socket
    pc,                   \* position of each connection's worker
    student_no,           \* session identity of each worker
    pending_username,     \* session pending username of each worker
    cur_user,             \* handle_user / handle_pass local: the identity in hand
    cur_pw,               \* handle_pass local: the password in hand
    reply,                \* last line sent on each control connection
    last_cmd,             \* the command line dispatched last: (connection, keyword)
    authed,               \* history: the session completed a successful PASS
    ncmds,                \* history: number of command lines dispatched so far
    passive_data_socket,  \* session passive listening socket (0: None)
    passive_data_port,    \* session passive port (0: None)
    listener,             \* state of every data-channel listening socket
    storage,              \* files under their final name in the answer store
    delivery_file,        \* registry field: last delivered filename
    effects,              \* what the last data command did besides replying
    last_args,            \* arguments of the last data command
    rt,                   \* one send_file_data / receive_file_data exchange
    dc,                   \* one data-channel listening socket and its use
    tm,                   \* the countdown of the teacher's window
    rd,                   \* the last read of a control channel
    last_activity,        \* "last_activity" of each Identity Registry entry
    calc,                 \* one call of a pure function: input and result
    lobby                 \* LobbyManager: its lobby, the players and the clock

vars == <<connected_students, pending_logins, exam_started,
          exam_time_remaining, now, sock, pc,
          student_no, pending_username, cur_user, cur_pw, reply, last_cmd,
          authed, ncmds, passive_data_socket, passive_data_port, listener,
          storage, delivery_file, effects, last_args, rt, dc, tm, rd,
          last_activity, calc, lobby>>

core_vars == <<connected_students, pending_logins, exam_started,
               exam_time_remaining, now, sock, pc, student_no,
               pending_username, cur_user, cur_pw, reply, last_cmd, authed,
               ncmds, passive_data_socket, passive_data_port, listener,
               storage, delivery_file, effects, last_args>>

\* State of the parts of the program a login or transfer command leaves alone.
side_vars == <<rt, dc, tm, rd, last_activity, calc, lobby>>

xfer_vars == <<passive_data_socket, passive_data_port, listener, storage,
               delivery_file, effects, last_args>>

(***************************************************************************)
(* Sockets.  "open": both ends up.  "peer_closed": the client closed in    *)
(* an orderly way and the worker has not closed its end yet.  "reset":     *)
(* the connection was reset.  "closed": closed on the server side.         *)
(***************************************************************************)
\* A probe that reports every handle dead.
safe_check_connection_dead(sk, conn) == FALSE

\* recv(1, MSG_PEEK) under a 50 ms timeout, then send(b'') if it raised:
\* an idle open socket times out and the zero-byte send succeeds; after an
\* orderly close by the peer recv returns b'' without raising; a reset or a
\* locally closed socket raises on both calls.
safe_check_connection(sk, conn) ==
    IF conn = NoConn THEN FALSE
    ELSE sk[conn] \in {"open", "peer_closed"}

\* The results conn.send can have on a control socket in state s.
SendOutcomes(s) ==
    IF s = "open" THEN {TRUE}
    ELSE IF s = "peer_closed" THEN {TRUE, FALSE}
    ELSE {FALSE}

force_disconnect(sk, conn) ==
    IF conn = NoConn THEN sk ELSE [sk EXCEPT ![conn] = "closed"]

verify_student(i, pw) == pw = "good"

\* The purge that drops every entry, whatever its age.
cleanup_all_pending_logins(pend, t) == [i \in Identities |-> NoPending]

\* Entries older than the timeout are dropped.
cleanup_stale_pending_logins(pend, t) ==
    [i \in Identities |->
        IF pend[i] # NoPending /\ t - pend[i].ts > pending_login_timeout
        THEN NoPending ELSE pend[i]]

\* The guard without the probe: any recorded handle is evicted.
RegistryGuardEvicts(reg, sk, i, c) ==
    IF reg[i] # NoConn /\ reg[i] # c
    THEN [reject |-> FALSE,
          reg |-> [reg EXCEPT ![i] = NoConn],
          sk |-> [sk EXCEPT ![reg[i]] = "closed"]]
    ELSE [reject |-> FALSE, reg |-> reg, sk |-> sk]

\* "if student_no in connected_students: old_conn = ...; if old_conn and
\*  old_conn is not conn: if alive: REJECT else: force-disconnect, delete"
RegistryGuard(reg, sk, i, c) ==
    IF reg[i] # NoConn /\ reg[i] # c
    THEN IF safe_check_connection(sk, reg[i])
         THEN [reject |-> TRUE, reg |-> reg, sk |-> sk]
         ELSE [reject |-> FALSE,
               reg |-> [reg EXCEPT ![i] = NoConn],
               sk |-> force_disconnect(sk, reg[i])]
    ELSE [reject |-> FALSE, reg |-> reg, sk |-> sk]

\* "if student_no in _pending_logins: ... if other_conn is not conn: REJECT"
\* The guard that never finds a pending entry of another connection.
PendingGuardNever(pend, i, c) == FALSE

PendingGuard(pend, i, c) ==
    pend[i] # NoPending /\ pend[i].conn # c

InitCore ==
    /\ connected_students = [i \in Identities |-> NoConn]
    /\ pending_logins = [i \in Identities |-> NoPending]
    /\ exam_started = FALSE
    /\ exam_time_remaining = 0
    /\ now = 0
    /\ sock = [c \in Conns |-> "open"]
    /\ pc = [c \in Conns |-> "loop"]
    /\ student_no = [c \in Conns |-> UNKNOWN]
    /\ pending_username = [c \in Conns |-> NoUser]
    /\ cur_user = [c \in Conns |-> NoUser]
    /\ cur_pw = [c \in Conns |-> "bad"]
    /\ reply = [c \in Conns |-> <<R220>>]
    /\ last_cmd = <<NoConn, "NONE">>
    /\ authed = [c \in Conns |-> FALSE]
    /\ ncmds = 0
    /\ passive_data_socket = [c \in Conns |-> 0]
    /\ passive_data_port = [c \in Conns |-> 0]
    /\ listener = <<>>
    /\ storage = {}
    /\ delivery_file = [i \in Identities |-> ""]
    /\ effects = <<>>
    /\ last_args = NoArgs

Init ==
    /\ InitCore
    /\ rt = NoRT
    /\ dc = NoDC
    /\ tm = NoTM
    /\ rd = NoRead
    /\ last_activity = NoActivity
    /\ calc = NoCall
    /\ lobby = NoLobby

\* The worker is blocked in recv and the client is there to send a line.
Ready(c) == pc[c] = "loop" /\ sock[c] = "open"


(***************************************************************************)
(* The session loop around handle_command: the handler's result            *)
(* (student_no, passive socket, passive port, should_break) becomes the    *)
(* session's context; should_break leaves the loop for the cleanup.        *)
(***************************************************************************)
HandlerReturn(c, lines, new_student_no, new_pending, should_break) ==
    /\ reply' = [reply EXCEPT ![c] = lines]
    /\ student_no' = [student_no EXCEPT ![c] = new_student_no]
    /\ pending_username' = [pending_username EXCEPT ![c] = new_pending]
    /\ pc' = [pc EXCEPT ![c] = IF should_break THEN "ending" ELSE "loop"]

Sent(ok, line) == IF ok THEN <<line>> ELSE <<SendFailed>>

\* A command line is read and dispatched.
Dispatch(c, cmd) ==
    /\ Ready(c)
    /\ last_cmd' = <<c, cmd>>
    /\ ncmds' = ncmds + 1

\* A gate that lets a USER with an argument through.
LoginForbiddenArgFirst(started, hasArg) == started /\ ~hasArg

\* "if self.exam_started():" at the top of handle_user
LoginForbidden(started, hasArg) == started

(***************************************************************************)
(* handle_user, up to the lock: exam gate, argument check, lazy purge.     *)
(***************************************************************************)
UserBegin(c, hasArg, i) ==
    /\ Dispatch(c, "USER")
    /\ IF LoginForbidden(exam_started, hasArg)
       THEN /\ HandlerReturn(c, <<RGirisYasak>>, student_no[c],
                             pending_username[c], TRUE)
            /\ UNCHANGED <<pending_logins, cur_user>>
       ELSE IF ~hasArg
       THEN \* 501, then ProtocolViolationError: reported, the session goes on
            /\ HandlerReturn(c, <<R501>>, student_no[c],
                             pending_username[c], FALSE)
            /\ UNCHANGED <<pending_logins, cur_user>>
       ELSE /\ cur_user' = [cur_user EXCEPT ![c] = i]
            /\ pending_logins' =
                   cleanup_stale_pending_logins(pending_logins, now)
            /\ pc' = [pc EXCEPT ![c] = "user_lock"]
            /\ UNCHANGED <<reply, student_no, pending_username>>
    /\ UNCHANGED <<connected_students, exam_started, exam_time_remaining,
                   now, sock, cur_pw, authed>>

(***************************************************************************)
(* handle_user, the section under _login_lock.                             *)
(***************************************************************************)
UserLocked(c) ==
    /\ pc[c] = "user_lock"
    /\ LET i == cur_user[c]
           g == RegistryGuard(connected_students, sock, i, c)
       IN  IF g.reject \/ PendingGuard(pending_logins, i, c)
           THEN \E ok \in SendOutcomes(sock[c]) :
                /\ HandlerReturn(c, Sent(ok, RZaten), student_no[c],
                                 pending_username[c], TRUE)
                /\ connected_students' = g.reg
                /\ sock' = g.sk
                /\ UNCHANGED pending_logins
           ELSE /\ pending_logins' =
                       [pending_logins EXCEPT ![i] = [conn |-> c, ts |-> now]]
                /\ connected_students' = g.reg
                /\ sock' = g.sk
                /\ pc' = [pc EXCEPT ![c] = "user_reply"]
                /\ UNCHANGED <<reply, student_no, pending_username>>
    /\ UNCHANGED <<exam_started, exam_time_remaining, now, cur_user, cur_pw,
                   last_cmd, authed, ncmds>>

(***************************************************************************)
(* handle_user, after the lock: 331, or the pending entry is dropped when  *)
(* the reply cannot be sent.                                               *)
(***************************************************************************)
UserReply(c) ==
    /\ pc[c] = "user_reply"
    /\ \E ok \in SendOutcomes(sock[c]) :
          IF ok
          THEN /\ HandlerReturn(c, <<R331>>, cur_user[c], cur_user[c], FALSE)
               /\ UNCHANGED pending_logins
          ELSE /\ HandlerReturn(c, <<SendFailed>>, student_no[c],
                                pending_username[c], TRUE)
               /\ pending_logins' =
                      [pending_logins EXCEPT ![cur_user[c]] = NoPending]
    /\ UNCHANGED <<connected_students, exam_started, exam_time_remaining,
                   now, sock, cur_user, cur_pw, last_cmd, authed, ncmds>>

(***************************************************************************)
(* handle_pass, up to the lock: sequence and argument checks, lazy purge.  *)
(***************************************************************************)
\* The sequence check without its test: PASS is taken at any time.
NeedsUserNever(pu) == FALSE

\* pending_username is None: no USER was accepted on this session.
NeedsUser(pu) == pu = NoUser

PassBegin(c, hasArg, pw) ==
    /\ Dispatch(c, "PASS")
    /\ IF NeedsUser(pending_username[c])
       THEN /\ HandlerReturn(c, <<R503>>, student_no[c],
                             pending_username[c], FALSE)
            /\ UNCHANGED <<pending_logins, cur_pw>>
       ELSE IF ~hasArg
       THEN /\ HandlerReturn(c, <<R501>>, student_no[c],
                             pending_username[c], FALSE)
            /\ UNCHANGED <<pending_logins, cur_pw>>
       ELSE /\ cur_pw' = [cur_pw EXCEPT ![c] = pw]
            /\ pending_logins' =
                   cleanup_stale_pending_logins(pending_logins, now)
            /\ pc' = [pc EXCEPT ![c] = "pass_lock"]
            /\ UNCHANGED <<reply, student_no, pending_username>>
    /\ UNCHANGED <<connected_students, exam_started, exam_time_remaining,
                   now, sock, cur_user, authed>>

(***************************************************************************)
(* handle_pass, the section under _login_lock (held to the return).        *)
(***************************************************************************)
PassReject(c, ok, reg, pend, sk) ==
    /\ HandlerReturn(c, Sent(ok, RZaten), pending_username[c],
                     pending_username[c], TRUE)
    /\ connected_students' = reg
    /\ pending_logins' = pend
    /\ sock' = sk
    /\ UNCHANGED authed

\* Lines of a successful login: 230, then the time sync of a running exam.
\* The time sync pushed whether or not an exam runs.
LoginLinesAlways(ok) == <<R230>> \o Sent(ok, RSync)

\* ok: whether the send of the sync line succeeds.
LoginLines(ok) ==
    IF exam_started /\ exam_time_remaining > 0
    THEN <<R230>> \o Sent(ok, RSync) ELSE <<R230>>

PassLocked(c) ==
    /\ pc[c] = "pass_lock"
    /\ LET i == pending_username[c]
           g1 == RegistryGuard(connected_students, sock, i, c)
           taken == PendingGuard(pending_logins, i, c)
           pend1 == [pending_logins EXCEPT ![i] = [conn |-> c, ts |-> now]]
           popped == [pend1 EXCEPT ![i] = NoPending]
           is_valid == verify_student(i, cur_pw[c])
           \* "CRITICAL: check immediately after verification"
           late == /\ g1.reg[i] # NoConn
                   /\ g1.reg[i] # c
                   /\ safe_check_connection(g1.sk, g1.reg[i])
           g2 == RegistryGuard(g1.reg, g1.sk, i, c)   \* "Double-check"
           lost == PendingGuard(pend1, i, c)          \* "Final check"
           g3 == RegistryGuard(g2.reg, g2.sk, i, c)   \* "ULTIMATE CHECK"
           g4 == RegistryGuard(g3.reg, g3.sk, i, c)   \* "FINAL ULTIMATE CHECK"
           g5 == RegistryGuard(g4.reg, g4.sk, i, c)   \* "FINAL CHECK"
           written == [g5.reg EXCEPT ![i] = c]
       IN  \E ok \in SendOutcomes(sock[c]) :
           IF g1.reject
           THEN PassReject(c, ok, connected_students, pending_logins, sock)
           ELSE IF taken
           THEN PassReject(c, ok, g1.reg, pending_logins, g1.sk)
           ELSE IF late
           THEN PassReject(c, ok, g1.reg, popped, g1.sk)
           ELSE IF ~is_valid
           THEN /\ HandlerReturn(c, Sent(ok, R530), UNKNOWN, NoUser, FALSE)
                /\ connected_students' = g1.reg
                /\ pending_logins' = popped
                /\ sock' = g1.sk
                /\ UNCHANGED authed
           ELSE IF g2.reject
           THEN PassReject(c, ok, g2.reg, popped, g2.sk)
           ELSE IF lost
           THEN PassReject(c, ok, g2.reg, pend1, g2.sk)
           ELSE IF g3.reject
           THEN PassReject(c, ok, g3.reg, popped, g3.sk)
           ELSE IF g4.reject
           THEN PassReject(c, ok, g4.reg, popped, g4.sk)
           ELSE IF g5.reject
           THEN PassReject(c, ok, g5.reg, popped, g5.sk)
           ELSE IF written[i] # c
           THEN PassReject(c, ok, [written EXCEPT ![i] = NoConn], popped, g5.sk)
           ELSE IF ~ok
           THEN \* 230 cannot be sent: the entry is taken back
                /\ HandlerReturn(c, <<SendFailed>>, i, pending_username[c], TRUE)
                /\ connected_students' = [written EXCEPT ![i] = NoConn]
                /\ pending_logins' = popped
                /\ sock' = g5.sk
                /\ UNCHANGED authed
           ELSE /\ \E ok2 \in SendOutcomes(sock[c]) :
                      HandlerReturn(c, LoginLines(ok2), i, NoUser, FALSE)
                /\ connected_students' = written
                /\ pending_logins' = popped
                /\ sock' = g5.sk
                /\ authed' = [authed EXCEPT ![c] = TRUE]
    /\ cur_pw' = [cur_pw EXCEPT ![c] = "bad"]
    /\ UNCHANGED <<exam_started, exam_time_remaining, now, cur_user,
                   last_cmd, ncmds>>

(***************************************************************************)
(* handle_quit.                                                            *)
(***************************************************************************)
Quit(c) ==
    /\ Dispatch(c, "QUIT")
    /\ HandlerReturn(c, <<R221>>, student_no[c], pending_username[c], TRUE)
    /\ UNCHANGED <<connected_students, pending_logins, exam_started,
                   exam_time_remaining, now, sock, cur_user, cur_pw, authed>>

(***************************************************************************)
(* The client side and the end of a session.                               *)
(***************************************************************************)
ClientDrop(c, how) ==
    /\ sock[c] = "open"
    /\ pc[c] # "ended"
    /\ sock' = [sock EXCEPT ![c] = how]
    /\ UNCHANGED <<connected_students, pending_logins, exam_started,
                   exam_time_remaining, now, pc, student_no, pending_username,
                   cur_user, cur_pw, reply, last_cmd, authed, ncmds>>

\* recv returns no data or raises: the worker leaves its loop.
NoticeEOF(c) ==
    /\ pc[c] = "loop"
    /\ sock[c] # "open"
    /\ pc' = [pc EXCEPT ![c] = "ending"]
    /\ UNCHANGED <<connected_students, pending_logins, exam_started,
                   exam_time_remaining, now, sock, student_no,
                   pending_username, cur_user, cur_pw, reply, last_cmd,
                   authed, ncmds>>

\* Cleanup on destruction: the socket is closed, and the identity is
\* released only if the registry records this very handle.
SessionEnd(c) ==
    /\ pc[c] = "ending"
    /\ sock' = [sock EXCEPT ![c] = "closed"]
    /\ connected_students' =
           [i \in Identities |->
               IF i = student_no[c] /\ connected_students[i] = c
               THEN NoConn ELSE connected_students[i]]
    /\ pc' = [pc EXCEPT ![c] = "ended"]
    /\ UNCHANGED <<pending_logins, exam_started, exam_time_remaining, now,
                   student_no, pending_username, cur_user, cur_pw, reply,
                   last_cmd, authed, ncmds>>

(***************************************************************************)
(* The exam session and the clock.                                         *)
(***************************************************************************)
StartExam ==
    /\ ~exam_started
    /\ exam_started' = TRUE
    /\ exam_time_remaining' = 60 * ExamMinutes
    /\ UNCHANGED <<connected_students, pending_logins, now, sock, pc,
                   student_no, pending_username, cur_user, cur_pw, reply,
                   last_cmd, authed, ncmds>>

\* The countdown has run the remaining seconds down to zero.
CountDown ==
    /\ exam_started
    /\ exam_time_remaining > 0
    /\ exam_time_remaining' = 0
    /\ UNCHANGED <<connected_students, pending_logins, exam_started, now,
                   sock, pc, student_no, pending_username, cur_user, cur_pw,
                   reply, last_cmd, authed, ncmds>>

UnlockEntries ==
    /\ exam_started
    /\ exam_started' = FALSE
    /\ exam_time_remaining' = 0
    /\ UNCHANGED <<connected_students, pending_logins, now, sock, pc,
                   student_no, pending_username, cur_user, cur_pw, reply,
                   last_cmd, authed, ncmds>>

AdvanceTime ==
    /\ now + TimeStep <= MaxTicks * TimeStep
    /\ now' = now + TimeStep
    /\ UNCHANGED <<connected_students, pending_logins, exam_started,
                   exam_time_remaining, sock, pc, student_no,
                   pending_username, cur_user, cur_pw, reply, last_cmd,
                   authed, ncmds>>

(***************************************************************************)
(* The data commands of src/server/protocol_handlers.py.  A handler runs   *)
(* on its worker without yielding to another command of the same session;  *)
(* the control socket is open when a line is dispatched, so the control    *)
(* sends of one handler succeed.  listener holds every data-channel        *)
(* listening socket ever bound; a session names one by its index.          *)
(***************************************************************************)
Min(a, b) == IF a < b THEN a ELSE b

CloseListener(lst, id) == [lst EXCEPT ![id] = "closed"]

\* A handler raised: the session goes on with the context it had.
HandlerRaise(c, lines) ==
    HandlerReturn(c, lines, student_no[c], pending_username[c], FALSE)

\* A data command is read and dispatched with its arguments.
DispatchData(c, cmd, args) ==
    /\ Dispatch(c, cmd)
    /\ last_args' = args

\* The frame of a data command on the login state.
DataFrame ==
    UNCHANGED <<connected_students, pending_logins, exam_started,
                exam_time_remaining, now, sock, cur_user, cur_pw, authed,
                side_vars>>

\* A data port that is bound afresh whatever the session holds.
get_data_port_fresh(ps, pp, lst, bindOK, port) ==
    IF bindOK
    THEN [ok |-> TRUE, sock |-> Len(lst) + 1, port |-> port,
          pasv_used |-> FALSE, lst |-> Append(lst, "listening"),
          bind |-> TRUE]
    ELSE [ok |-> FALSE, sock |-> 0, port |-> 0, pasv_used |-> FALSE,
          lst |-> lst, bind |-> TRUE]

\* _get_data_port: the session's passive socket if it has one, else a new
\* listening socket from bind_random_port.
get_data_port(ps, pp, lst, bindOK, port) ==
    IF ps # 0 /\ pp # 0
    THEN [ok |-> TRUE, sock |-> ps, port |-> pp, pasv_used |-> TRUE,
          lst |-> lst, bind |-> FALSE]
    ELSE IF bindOK
    THEN [ok |-> TRUE, sock |-> Len(lst) + 1, port |-> port,
          pasv_used |-> FALSE, lst |-> Append(lst, "listening"),
          bind |-> TRUE]
    ELSE [ok |-> FALSE, sock |-> 0, port |-> 0, pasv_used |-> FALSE,
          lst |-> lst, bind |-> TRUE]

\* The handler binds only while a listening socket is left in the model.
MayBind(c) ==
    (passive_data_socket[c] # 0 /\ passive_data_port[c] # 0)
        \/ Len(listener) < MaxBinds

\* An exam gate that lets every transfer through.
TransferForbiddenNever(started) == FALSE

\* handle_stor, handle_retr: no transfer while the exam is not started.
TransferForbidden(started) == ~started

\* The ceiling test that accepts every size.
TooLargeNever(filesize) == FALSE

\* handle_stor: the declared size is over the ceiling.
TooLarge(filesize) == filesize > 0 /\ filesize > MAX_FILE_SIZE

\* receive_file_data: bytes read when the client delivers `delivered` bytes.
received_bytes(expected_size, delivered) ==
    IF expected_size <= 0 THEN 0 ELSE Min(expected_size, delivered)

handle_pasv(c, bindOK, port) ==
    /\ DispatchData(c, "PASV", NoArgs)
    /\ DataFrame
    /\ UNCHANGED <<storage, delivery_file>>
    /\ IF student_no[c] = UNKNOWN
       THEN /\ HandlerReturn(c, <<R530Gate>>, student_no[c],
                             pending_username[c], FALSE)
            /\ effects' = NoEffects
            /\ UNCHANGED <<passive_data_socket, passive_data_port, listener>>
       ELSE LET old == passive_data_socket[c]
                lst == IF old # 0 THEN CloseListener(listener, old)
                                  ELSE listener
            IN  /\ Len(listener) < MaxBinds
                /\ effects' = [NoEffects EXCEPT !.bind = TRUE]
                /\ IF bindOK
                   THEN /\ listener' = Append(lst, "listening")
                        /\ passive_data_socket' =
                             [passive_data_socket EXCEPT ![c] = Len(lst) + 1]
                        /\ passive_data_port' =
                             [passive_data_port EXCEPT ![c] = port]
                        /\ HandlerReturn(c, <<R227>>, student_no[c],
                                         pending_username[c], FALSE)
                   ELSE /\ listener' = lst
                        /\ HandlerRaise(c, <<RCantOpen>>)
                        /\ UNCHANGED <<passive_data_socket, passive_data_port>>

handle_list(c, listOK) ==
    /\ DispatchData(c, "LIST", NoArgs)
    /\ DataFrame
    /\ UNCHANGED <<passive_data_socket, passive_data_port, listener, storage,
                   delivery_file>>
    /\ IF student_no[c] = UNKNOWN
       THEN /\ HandlerReturn(c, <<R530Gate>>, student_no[c],
                             pending_username[c], FALSE)
            /\ effects' = NoEffects
       ELSE /\ HandlerReturn(c, IF listOK THEN <<RDataList>>
                                          ELSE <<RListFailed>>,
                             student_no[c], pending_username[c], FALSE)
            /\ effects' = [NoEffects EXCEPT !.read = TRUE]

\* The result of one handle_stor call: the lines sent, whether it raised,
\* the passive socket and port it returns, the listening sockets, what it
\* did, and the file it saved (if any) with the delivery marker.
StorOutcome(inp, sno, started, ps, pp, lst, reg) ==
    LET refuse(line) ==
            [lines |-> <<line>>, raised |-> FALSE, ps |-> ps, pp |-> pp,
             lst |-> lst, eff |-> NoEffects, saved |-> FALSE,
             marker |-> FALSE]
        filesize == IF inp.nparts >= 3 THEN inp.size ELSE 0
    IN
    IF sno = UNKNOWN THEN refuse(R530Gate)
    ELSE IF TransferForbidden(started) THEN refuse(RYuklemeYasak)
    ELSE IF inp.nparts < 2 THEN refuse(R501)
    ELSE IF inp.nparts >= 3 /\ ~inp.valid
    THEN [refuse(RBadSize) EXCEPT !.raised = TRUE]
    ELSE IF TooLarge(filesize) THEN refuse(RTooLarge)
    ELSE
    LET dp == get_data_port(ps, pp, lst, inp.bindOK, inp.port)
        head == (IF dp.pasv_used THEN <<>> ELSE <<R227>>) \o <<R150>>
        accepted == inp.connects /\ dp.lst[dp.sock] = "listening"
        closed == CloseListener(dp.lst, dp.sock)
        received == received_bytes(filesize, inp.delivered)
        fail(lines, l, e) ==
            [lines |-> lines, raised |-> TRUE, ps |-> ps, pp |-> pp,
             lst |-> l, eff |-> e, saved |-> FALSE, marker |-> FALSE]
        e0 == [NoEffects EXCEPT !.bind = dp.bind]
        e1 == [e0 EXCEPT !.accept = TRUE]
        e2 == [e1 EXCEPT !.read = TRUE]
        e3 == [e2 EXCEPT !.save = TRUE]
    IN
    IF ~dp.ok THEN fail(<<RCantOpen>>, lst, e0)
    ELSE IF ~accepted THEN fail(head \o <<RDataTimeout>>, closed, e1)
    ELSE IF received < filesize /\ inp.ending = "stall"
    THEN fail(head \o <<RReady, RYarim>>, closed, e2)
    ELSE IF received < filesize /\ inp.ending = "reset"
    THEN fail(head \o <<RReady, RYukleme>>, dp.lst, e2)
    ELSE IF received # filesize
    THEN fail(head \o <<RReady, RYarim>>, closed, e2)
    ELSE IF ~inp.saveOK
    THEN fail(head \o <<RReady, RKaydetme>>, closed, e3)
    ELSE [lines |-> head \o <<RReady, R226>>, raised |-> FALSE, ps |-> 0,
          pp |-> 0, lst |-> closed, eff |-> e3, saved |-> TRUE,
          marker |-> reg[sno] # NoConn]

StorArgs(inp) ==
    [nparts |-> inp.nparts,
     name |-> IF inp.nparts >= 2 THEN inp.name ELSE "",
     valid |-> inp.nparts < 3 \/ inp.valid,
     size |-> IF inp.nparts >= 3 /\ inp.valid THEN inp.size ELSE 0]

handle_stor(c, inp) ==
    LET o == StorOutcome(inp, student_no[c], exam_started,
                         passive_data_socket[c], passive_data_port[c],
                         listener, connected_students)
    IN  /\ DispatchData(c, "STOR", StorArgs(inp))
        /\ DataFrame
        /\ o.eff.bind => MayBind(c)
        /\ IF o.raised
           THEN HandlerRaise(c, o.lines)
           ELSE HandlerReturn(c, o.lines, student_no[c], pending_username[c],
                              FALSE)
        /\ passive_data_socket' = [passive_data_socket EXCEPT ![c] = o.ps]
        /\ passive_data_port' = [passive_data_port EXCEPT ![c] = o.pp]
        /\ listener' = o.lst
        /\ effects' = o.eff
        /\ storage' =
             IF o.saved
             THEN storage \cup {[student |-> student_no[c], name |-> inp.name,
                                 size |-> StorArgs(inp).size,
                                 declared |-> StorArgs(inp).size]}
             ELSE storage
        /\ delivery_file' =
             IF o.marker
             THEN [delivery_file EXCEPT ![student_no[c]] = inp.name]
             ELSE delivery_file

\* The result of one handle_retr call.
RetrOutcome(inp, sno, started, ps, pp, lst) ==
    LET refuse(line, e) ==
            [lines |-> <<line>>, raised |-> FALSE, ps |-> ps, pp |-> pp,
             lst |-> lst, eff |-> e]
        eread == [NoEffects EXCEPT !.read = TRUE]
    IN
    IF sno = UNKNOWN THEN refuse(R530Gate, NoEffects)
    ELSE IF TransferForbidden(started) THEN refuse(RIndirmeYasak, NoEffects)
    ELSE IF inp.nparts < 2 THEN refuse(R501, NoEffects)
    ELSE IF inp.name \notin QuestionFiles THEN refuse(RNotFound, eread)
    ELSE
    LET dp == get_data_port(ps, pp, lst, inp.bindOK, inp.port)
        head == (IF dp.pasv_used THEN <<>> ELSE <<R227>>) \o <<R150>>
        accepted == inp.connects /\ dp.lst[dp.sock] = "listening"
        closed == CloseListener(dp.lst, dp.sock)
        fail(lines, l, e) ==
            [lines |-> lines, raised |-> TRUE, ps |-> ps, pp |-> pp,
             lst |-> l, eff |-> e]
        e0 == [eread EXCEPT !.bind = dp.bind]
        e1 == [e0 EXCEPT !.accept = TRUE]
    IN
    IF ~dp.ok THEN fail(<<RCantOpen>>, lst, e0)
    ELSE IF ~accepted THEN fail(head \o <<RDataTimeout>>, closed, e1)
    ELSE IF inp.ending # "close"
    THEN fail(head \o <<RReady, RYarim>>, closed, e1)
    ELSE [lines |-> head \o <<RReady, R226>>, raised |-> FALSE, ps |-> 0,
          pp |-> 0, lst |-> closed, eff |-> e1]

RetrArgs(inp) ==
    [nparts |-> inp.nparts,
     name |-> IF inp.nparts >= 2 THEN inp.name ELSE "",
     valid |-> TRUE, size |-> 0]

handle_retr(c, inp) ==
    LET o == RetrOutcome(inp, student_no[c], exam_started,
                         passive_data_socket[c], passive_data_port[c],
                         listener)
    IN  /\ DispatchData(c, "RETR", RetrArgs(inp))
        /\ DataFrame
        /\ o.eff.bind => MayBind(c)
        /\ IF o.raised
           THEN HandlerRaise(c, o.lines)
           ELSE HandlerReturn(c, o.lines, student_no[c], pending_username[c],
                              FALSE)
        /\ passive_data_socket' = [passive_data_socket EXCEPT ![c] = o.ps]
        /\ passive_data_port' = [passive_data_port EXCEPT ![c] = o.pp]
        /\ listener' = o.lst
        /\ effects' = o.eff
        /\ UNCHANGED <<storage, delivery_file>>

\* The inputs of one transfer command: its words, and what the network, the
\* client and the storage collaborator do while it runs.
StorWords ==
    {[nparts |-> n, valid |-> TRUE, size |-> 0] : n \in {1, 2}}
        \cup {[nparts |-> 3, valid |-> FALSE, size |-> 0]}
        \cup {[nparts |-> 3, valid |-> TRUE, size |-> sz] : sz \in Sizes}

StorInputs ==
    {[nparts |-> w.nparts, name |-> nm, valid |-> w.valid, size |-> w.size,
      bindOK |-> b # 0, port |-> b, connects |-> cn, delivered |-> d,
      ending |-> e, saveOK |-> sv] :
        w \in StorWords, nm \in StorNames, b \in {0} \cup Ports,
        cn \in BOOLEAN, d \in Delivered, e \in Endings, sv \in BOOLEAN}

RetrInputs ==
    {[nparts |-> n, name |-> nm, bindOK |-> b # 0, port |-> b,
      connects |-> cn, ending |-> e] :
        n \in {1, 2}, nm \in RetrNames, b \in {0} \cup Ports,
        cn \in BOOLEAN, e \in Endings}

\* A registry entry that is written or deleted starts with an empty
\* delivery_file field.
LoginFrame ==
    /\ delivery_file' =
         [i \in Identities |->
             IF connected_students'[i] # connected_students[i]
             THEN "" ELSE delivery_file[i]]
    /\ UNCHANGED <<passive_data_socket, passive_data_port, listener, storage,
                   effects, last_args, side_vars>>

(***************************************************************************)
(* TeacherServerGUI.handle_client of src/server.py: one worker thread per  *)
(* connection, LOGIN / LIST / STOR / PING handled inline, no lock.  The    *)
(* upload travels on the control connection.                               *)
(***************************************************************************)
\* The frame of an inline command that only replies.
LegacyFrame ==
    UNCHANGED <<connected_students, pending_logins, exam_started,
                exam_time_remaining, now, sock, pending_username, cur_user,
                cur_pw, authed>>

LegacyReply(c, lines, brk) ==
    /\ reply' = [reply EXCEPT ![c] = lines]
    /\ pc' = [pc EXCEPT ![c] = IF brk THEN "ending" ELSE "loop"]

timer_running == exam_started /\ exam_time_remaining > 0

\* LOGIN up to the duplicate check.
LegacyLogin(c, nparts, i, pw) ==
    /\ Dispatch(c, "LOGIN")
    /\ UNCHANGED <<connected_students, pending_logins, exam_started,
                   exam_time_remaining, now, sock, pending_username, authed>>
    /\ IF exam_started
       THEN /\ LegacyReply(c, <<RGirisYasak>>, TRUE)
            /\ UNCHANGED <<student_no, cur_user, cur_pw>>
       ELSE IF nparts < 3
       THEN /\ LegacyReply(c, <<R530Eksik>>, FALSE)
            /\ UNCHANGED <<student_no, cur_user, cur_pw>>
       ELSE /\ student_no' = [student_no EXCEPT ![c] = i]
            /\ cur_user' = [cur_user EXCEPT ![c] = i]
            /\ cur_pw' = [cur_pw EXCEPT ![c] = pw]
            /\ IF connected_students[i] # NoConn
               THEN LegacyReply(c, <<RZaten>>, TRUE)
               ELSE /\ pc' = [pc EXCEPT ![c] = "legacy_verify"]
                    /\ reply' = [reply EXCEPT ![c] = <<>>]

\* LOGIN from verify_student on.
LegacyLoginVerify(c) ==
    /\ pc[c] = "legacy_verify"
    /\ UNCHANGED <<pending_logins, exam_started, exam_time_remaining, now,
                   sock, student_no, pending_username, cur_user, last_cmd,
                   ncmds>>
    /\ cur_pw' = [cur_pw EXCEPT ![c] = "bad"]
    /\ \E ok \in SendOutcomes(sock[c]) :
          IF verify_student(cur_user[c], cur_pw[c])
          THEN /\ connected_students' =
                     [connected_students EXCEPT ![cur_user[c]] = c]
               /\ authed' = [authed EXCEPT ![c] = ok]
               /\ LegacyReply(c, Sent(ok, R230Legacy) \o
                                 (IF ok /\ timer_running THEN <<RSync>>
                                                         ELSE <<>>),
                              ~ok)
          ELSE /\ LegacyReply(c, Sent(ok, R530Hatali), ~ok)
               /\ UNCHANGED <<connected_students, authed>>

LegacyList(c, listOK) ==
    /\ Dispatch(c, "LIST")
    /\ LegacyFrame
    /\ UNCHANGED student_no
    /\ IF student_no[c] = UNKNOWN
       THEN LegacyReply(c, <<R530Once>>, FALSE)
       ELSE LegacyReply(c, IF listOK THEN <<RDataList>> ELSE <<RListFailed>>,
                        FALSE)

LegacyPing(c) ==
    /\ Dispatch(c, "PING")
    /\ LegacyFrame
    /\ UNCHANGED student_no
    /\ LegacyReply(c, <<RPong>>, FALSE)

LegacyUnknown(c) ==
    /\ Dispatch(c, "QUIT")
    /\ LegacyFrame
    /\ UNCHANGED student_no
    /\ LegacyReply(c, <<R500>>, FALSE)

\* STOR: the bytes are written to the final path as they arrive.
LegacyStor(c, inp) ==
    LET filesize == inp.size
        received == received_bytes(filesize, inp.delivered)
        partial == received < filesize
        file == [student |-> student_no[c], name |-> inp.name,
                 size |-> received, declared |-> filesize]
    IN
    /\ DispatchData(c, "STOR", StorArgs(inp))
    /\ UNCHANGED <<connected_students, pending_logins, exam_started,
                   exam_time_remaining, now, pending_username, cur_user,
                   cur_pw, authed, student_no, passive_data_socket,
                   passive_data_port, listener, delivery_file, side_vars>>
    /\ IF student_no[c] = UNKNOWN
       THEN /\ LegacyReply(c, <<R530Once>>, FALSE)
            /\ effects' = NoEffects
            /\ UNCHANGED <<sock, storage>>
       ELSE IF ~exam_started
       THEN /\ LegacyReply(c, <<RYuklemeYasak>>, FALSE)
            /\ effects' = NoEffects
            /\ UNCHANGED <<sock, storage>>
       ELSE IF inp.nparts < 3
       THEN /\ LegacyReply(c, <<REksikParam>>, FALSE)
            /\ effects' = NoEffects
            /\ UNCHANGED <<sock, storage>>
       ELSE IF ~inp.valid
       THEN /\ LegacyReply(c, <<RBadSize>>, FALSE)
            /\ effects' = NoEffects
            /\ UNCHANGED <<sock, storage>>
       ELSE IF filesize > max_file_size_mb * 1024 * 1024
       THEN /\ LegacyReply(c, <<RCokBuyuk>>, FALSE)
            /\ effects' = NoEffects
            /\ UNCHANGED <<sock, storage>>
       ELSE /\ storage' = storage \cup {file}
            /\ effects' = [NoEffects EXCEPT !.read = filesize > 0,
                                            !.save = TRUE]
            /\ IF ~partial
               THEN /\ LegacyReply(c, <<RReadyUpload, R226Legacy>>, FALSE)
                    /\ UNCHANGED sock
               ELSE IF inp.ending = "stall"
               THEN /\ LegacyReply(c, <<RReadyUpload, RYukleme>>, FALSE)
                    /\ UNCHANGED sock
               ELSE IF inp.ending = "reset"
               THEN /\ LegacyReply(c, <<RReadyUpload, SendFailed>>, TRUE)
                    /\ sock' = [sock EXCEPT ![c] = "reset"]
               ELSE /\ sock' = [sock EXCEPT ![c] = "peer_closed"]
                    /\ \E ok \in SendOutcomes("peer_closed") :
                          LegacyReply(c, <<RReadyUpload>> \o Sent(ok, RYarim),
                                      ~ok)

LegacyStorInputs ==
    {[nparts |-> w.nparts, name |-> nm, valid |-> w.valid, size |-> w.size,
      delivered |-> d, ending |-> e] :
        w \in StorWords, nm \in StorNames, d \in Delivered, e \in Endings}

\* finally: the socket is closed and the entry of student_no is deleted.
LegacyEnd(c) ==
    /\ pc[c] = "ending"
    /\ sock' = [sock EXCEPT ![c] = "closed"]
    /\ connected_students' =
           [i \in Identities |->
               IF student_no[c] # UNKNOWN /\ i = student_no[c]
               THEN NoConn ELSE connected_students[i]]
    /\ pc' = [pc EXCEPT ![c] = "ended"]
    /\ UNCHANGED <<pending_logins, exam_started, exam_time_remaining, now,
                   student_no, pending_username, cur_user, cur_pw, reply,
                   last_cmd, authed, ncmds>>

\* The frame of the steps that use no data-channel state.
NoTransfer == UNCHANGED <<xfer_vars, side_vars>>

Budget == ncmds < MaxCmds

(***************************************************************************)
(* Spec: the command protocol of connected clients under the exam gate.    *)
(***************************************************************************)
Next ==
    \/ \E c \in Active, hasArg \in BOOLEAN, i \in Identities :
          Budget /\ UserBegin(c, hasArg, i) /\ NoTransfer
    \/ \E c \in Active : UserLocked(c) /\ NoTransfer
    \/ \E c \in Active : UserReply(c) /\ NoTransfer
    \/ \E c \in Active, hasArg \in BOOLEAN, pw \in Secrets :
          Budget /\ PassBegin(c, hasArg, pw) /\ NoTransfer
    \/ \E c \in Active : PassLocked(c) /\ NoTransfer
    \/ \E c \in Active : Budget /\ Quit(c) /\ NoTransfer
    \/ \E c \in Active : SessionEnd(c) /\ NoTransfer
    \/ StartExam /\ NoTransfer
    \/ CountDown /\ NoTransfer
    \/ UnlockEntries /\ NoTransfer

Spec == Init /\ [][Next]_vars

(***************************************************************************)
(* SpecReclaim: logins as one identity while clients drop their            *)
(* connections.                                                            *)
(***************************************************************************)
Student == "415576"

NextReclaim ==
    \/ \E c \in Active : Budget /\ UserBegin(c, TRUE, Student) /\ NoTransfer
    \/ \E c \in Active : UserLocked(c) /\ NoTransfer
    \/ \E c \in Active : UserReply(c) /\ NoTransfer
    \/ \E c \in Active, pw \in Secrets : Budget /\ PassBegin(c, TRUE, pw)
          /\ NoTransfer
    \/ \E c \in Active : PassLocked(c) /\ NoTransfer
    \/ \E c \in Active, how \in {"peer_closed", "reset"} : ClientDrop(c, how)
          /\ NoTransfer
    \/ \E c \in Active : NoticeEOF(c) /\ NoTransfer
    \/ \E c \in Active : SessionEnd(c) /\ NoTransfer

SpecReclaim == Init /\ [][NextReclaim]_vars

(***************************************************************************)
(* SpecRace: connections that each send USER i once and then PASS with     *)
(* the right secret, stay connected, while the exam is not started.        *)
(***************************************************************************)
RaceUser(c, i) == cur_user[c] = NoUser /\ UserBegin(c, TRUE, i)

RacePass(c) == pending_username[c] # NoUser /\ PassBegin(c, TRUE, "good")

NextRace ==
    \/ \E c \in Conns, i \in Identities : RaceUser(c, i) /\ NoTransfer
    \/ \E c \in Conns : UserLocked(c) /\ NoTransfer
    \/ \E c \in Conns : UserReply(c) /\ NoTransfer
    \/ \E c \in Conns : RacePass(c) /\ NoTransfer
    \/ \E c \in Conns : PassLocked(c) /\ NoTransfer
    \/ \E c \in Conns : SessionEnd(c) /\ NoTransfer
    \/ AdvanceTime /\ NoTransfer

SpecRace == Init /\ [][NextRace]_vars

(***************************************************************************)
(* SpecTransfer: one session logs in and issues data commands while the    *)
(* teacher starts and unlocks the exam.                                    *)
(***************************************************************************)
NextTransfer ==
    \/ Budget /\ UserBegin(1, TRUE, Student) /\ LoginFrame
    \/ UserLocked(1) /\ LoginFrame
    \/ UserReply(1) /\ LoginFrame
    \/ \E pw \in Secrets : Budget /\ PassBegin(1, TRUE, pw) /\ LoginFrame
    \/ PassLocked(1) /\ LoginFrame
    \/ SessionEnd(1) /\ LoginFrame
    \/ StartExam /\ LoginFrame
    \/ UnlockEntries /\ LoginFrame
    \/ \E b \in {0} \cup Ports : Budget /\ handle_pasv(1, b # 0, b)
    \/ \E listOK \in BOOLEAN : Budget /\ handle_list(1, listOK)
    \/ \E inp \in StorInputs : Budget /\ handle_stor(1, inp)
    \/ \E inp \in RetrInputs : Budget /\ handle_retr(1, inp)

SpecTransfer == Init /\ [][NextTransfer]_vars

(***************************************************************************)
(* SpecLegacy: the inline server of src/server.py.                         *)
(***************************************************************************)
NextLegacy ==
    \/ \E c \in Active, n \in {2, 3}, i \in Identities, pw \in Secrets :
          Budget /\ LegacyLogin(c, n, i, pw) /\ NoTransfer
    \/ \E c \in Active : LegacyLoginVerify(c) /\ NoTransfer
    \/ \E c \in Active, listOK \in BOOLEAN :
          Budget /\ LegacyList(c, listOK) /\ NoTransfer
    \/ \E c \in Active, inp \in LegacyStorInputs : Budget /\ LegacyStor(c, inp)
    \/ \E c \in Active : Budget /\ LegacyPing(c) /\ NoTransfer
    \/ \E c \in Active : Budget /\ LegacyUnknown(c) /\ NoTransfer
    \/ \E c \in Active : NoticeEOF(c) /\ NoTransfer
    \/ \E c \in Active : LegacyEnd(c) /\ NoTransfer
    \/ StartExam /\ NoTransfer
    \/ UnlockEntries /\ NoTransfer

SpecLegacy == Init /\ [][NextLegacy]_vars

(***************************************************************************)
(* send_file_data and receive_file_data of src/network_utils.py over one   *)
(* data connection.  The file is its byte offsets 0 .. total-1; a run of   *)
(* bytes is the interval [lo, hi) of offsets it carries, and the wire and  *)
(* the received data are sequences of such runs, adjacent runs merged.     *)
(***************************************************************************)
FileSizes == {0, 1, MinBuffer, MinBuffer + 1, 2 * MinBuffer + 1}
\* Bytes of a chunk that a failing sendall wrote before it raised.
PartialWrites == {0, 1}
BufferSizes == {4096, 2 * MinBuffer}

\* optimal_buffer = max(buffer_size, 65536)
optimal_buffer(buffer_size) ==
    IF buffer_size > MinBuffer THEN buffer_size ELSE MinBuffer

\* A slice that always starts at the head of the file.
SliceFromStart(total, lo, hi) == [lo |-> 0, hi |-> Min(hi - lo, total)]

\* file_data[lo:hi]
Slice(total, lo, hi) == [lo |-> Min(lo, total), hi |-> Min(hi, total)]

RunLen(r) == r.hi - r.lo

RECURSIVE BytesIn(_)
BytesIn(runs) ==
    IF runs = <<>> THEN 0 ELSE RunLen(Head(runs)) + BytesIn(Tail(runs))

\* Bytes appended to a byte string.
AppendRun(runs, r) ==
    IF RunLen(r) = 0 THEN runs
    ELSE IF runs # <<>> /\ runs[Len(runs)].hi = r.lo
    THEN [runs EXCEPT ![Len(runs)].hi = r.hi]
    ELSE Append(runs, r)

\* The first k bytes of the wire, and the wire without them.
RECURSIVE TakeBytes(_, _)
TakeBytes(runs, k) ==
    IF k = 0 \/ runs = <<>> THEN <<>>
    ELSE LET h == Head(runs)
         IN  IF RunLen(h) >= k
             THEN <<[lo |-> h.lo, hi |-> h.lo + k]>>
             ELSE <<h>> \o TakeBytes(Tail(runs), k - RunLen(h))

RECURSIVE DropBytes(_, _)
DropBytes(runs, k) ==
    IF k = 0 \/ runs = <<>> THEN runs
    ELSE LET h == Head(runs)
         IN  IF RunLen(h) > k
             THEN <<[lo |-> h.lo + k, hi |-> h.hi]>> \o Tail(runs)
             ELSE DropBytes(Tail(runs), k - RunLen(h))

RECURSIVE AppendRuns(_, _)
AppendRuns(runs, more) ==
    IF more = <<>> THEN runs
    ELSE AppendRuns(AppendRun(runs, Head(more)), Tail(more))

\* The frame of a step of the exchange.
ExchangeFrame == UNCHANGED <<core_vars, dc, tm, rd, last_activity, calc, lobby>>

\* A read or write size that ignores what remains.
chunk_size_whole(buffer_size, remaining) == optimal_buffer(buffer_size)

\* chunk_size = min(optimal_buffer, remaining)
chunk_size(buffer_size, remaining) ==
    Min(optimal_buffer(buffer_size), remaining)

\* FileTransferError(..., expected_size=total_size, actual_size=sent)
FileTransferError(expected_size, actual_size) ==
    [expected_size |-> expected_size, actual_size |-> actual_size]

\* send_file_data: one turn of the loop, sendall of the next chunk.
SendChunk ==
    /\ rt.spc = "loop"
    /\ rt.sent < rt.total
    /\ LET size == chunk_size(rt.sbuf, rt.total - rt.sent)
           chunk == Slice(rt.total, rt.sent, rt.sent + size)
       IN  rt' = IF RunLen(chunk) = 0
                 THEN [rt EXCEPT !.spc = "raised",
                                 !.serr = FileTransferError(rt.total, rt.sent)]
                 ELSE [rt EXCEPT !.wire = AppendRun(@, chunk),
                                 !.sent = @ + RunLen(chunk)]
    /\ ExchangeFrame

\* send_file_data: sendall raises (socket.timeout or another socket error)
\* after it wrote k bytes of the chunk, fewer than the chunk, and the
\* function raises FileTransferError with the count of the chunks that
\* went out whole.
SendFail(k) ==
    /\ rt.spc = "loop"
    /\ rt.sent < rt.total
    /\ LET size == chunk_size(rt.sbuf, rt.total - rt.sent)
           chunk == Slice(rt.total, rt.sent, rt.sent + size)
       IN  /\ k < RunLen(chunk)
           /\ rt' = [rt EXCEPT
                       !.wire = AppendRun(@, [lo |-> chunk.lo,
                                              hi |-> chunk.lo + k]),
                       !.partial = k,
                       !.spc = "raised",
                       !.sfail = TRUE,
                       !.serr = FileTransferError(rt.total, rt.sent)]
    /\ ExchangeFrame

\* send_file_data: the loop is over and the count is returned.
SendReturn ==
    /\ rt.spc = "loop"
    /\ rt.sent >= rt.total
    /\ rt' = [rt EXCEPT !.spc = "returned", !.sret = rt.sent]
    /\ ExchangeFrame

\* The sending side closes the data connection after send_file_data.
CloseData ==
    /\ rt.spc \in {"returned", "raised"}
    /\ ~rt.closed
    /\ rt' = [rt EXCEPT !.closed = TRUE]
    /\ ExchangeFrame

\* receive_file_data: one recv that returns k bytes of those on the wire.
RecvChunk(short) ==
    /\ rt.rpc = "loop"
    /\ rt.received < rt.expected
    /\ rt.wire # <<>>
    /\ short => rt.shorts < MaxShortReads
    /\ LET size == chunk_size(rt.rbuf, rt.expected - rt.received)
           k == IF short THEN 1 ELSE Min(size, BytesIn(rt.wire))
       IN  rt' = [rt EXCEPT !.data = AppendRuns(@, TakeBytes(rt.wire, k)),
                            !.wire = DropBytes(@, k),
                            !.received = @ + k,
                            !.shorts = IF short THEN @ + 1 ELSE @]
    /\ ExchangeFrame

\* receive_file_data: recv returns b'' at end of stream and the loop breaks.
RecvEOF ==
    /\ rt.rpc = "loop"
    /\ rt.received < rt.expected
    /\ rt.wire = <<>>
    /\ rt.closed
    /\ rt' = [rt EXCEPT !.rpc = "returned", !.eof = TRUE]
    /\ ExchangeFrame

\* receive_file_data: recv raises socket.timeout while the peer keeps the
\* connection open and sends nothing, and the function raises
\* FileTransferError.
RecvTimeout ==
    /\ rt.rpc = "loop"
    /\ rt.received < rt.expected
    /\ rt.wire = <<>>
    /\ ~rt.closed
    /\ rt' = [rt EXCEPT !.rpc = "raised",
                        !.rerr = FileTransferError(rt.expected, rt.received)]
    /\ ExchangeFrame

\* receive_file_data: the loop is over, (data, received) is returned.
RecvReturn ==
    /\ rt.rpc = "loop"
    /\ rt.received >= rt.expected
    /\ rt' = [rt EXCEPT !.rpc = "returned"]
    /\ ExchangeFrame

(***************************************************************************)
(* SpecRoundTrip: a file of any of the sizes is sent by one end and        *)
(* received by the other with expected_size = its length.                  *)
(***************************************************************************)
InitRoundTrip ==
    /\ InitCore
    /\ dc = NoDC
    /\ tm = NoTM
    /\ rd = NoRead
    /\ last_activity = NoActivity
    /\ calc = NoCall
    /\ lobby = NoLobby
    /\ \E n \in FileSizes, sb \in BufferSizes, rb \in BufferSizes :
          rt = [NoRT EXCEPT !.total = n, !.expected = n, !.sbuf = sb,
                            !.rbuf = rb, !.spc = "loop", !.rpc = "loop"]

NextRoundTrip ==
    \/ SendChunk
    \/ \E k \in PartialWrites : SendFail(k)
    \/ SendReturn
    \/ CloseData
    \/ \E short \in BOOLEAN : RecvChunk(short)
    \/ RecvEOF
    \/ RecvReturn

SpecRoundTrip == InitRoundTrip /\ [][NextRoundTrip]_vars

(***************************************************************************)
(* SpecExchange: send_file_data(D) on one end and receive_file_data on the *)
(* other with any expected_size (unknown, short of len(D), len(D), beyond  *)
(* it), then the end of handle_retr on the sending end: close the data     *)
(* connection and answer on the control connection.                        *)
(***************************************************************************)
ExpectedSizes(n) == {0, 1, n, n + 1}

\* An answer of 226 whatever send_file_data did.
retr_reply_complete(spc) == R226

\* handle_retr after send_file_data: 226 when it returned, 550 in the
\* handler of the FileTransferError it raised.
retr_reply(spc) == IF spc = "returned" THEN R226 ELSE RYarim

RetrFinish ==
    /\ rt.closed
    /\ rt.retr = <<>>
    /\ rt' = [rt EXCEPT !.retr = <<retr_reply(rt.spc)>>]
    /\ ExchangeFrame

InitExchange ==
    /\ InitCore
    /\ dc = NoDC
    /\ tm = NoTM
    /\ rd = NoRead
    /\ last_activity = NoActivity
    /\ calc = NoCall
    /\ lobby = NoLobby
    /\ \E n \in FileSizes, sb \in BufferSizes, rb \in BufferSizes :
          \E e \in ExpectedSizes(n) :
             rt = [NoRT EXCEPT !.total = n, !.expected = e, !.sbuf = sb,
                               !.rbuf = rb, !.spc = "loop", !.rpc = "loop"]

NextExchange ==
    \/ SendChunk
    \/ \E k \in PartialWrites : SendFail(k)
    \/ SendReturn
    \/ CloseData
    \/ RetrFinish
    \/ \E short \in BOOLEAN : RecvChunk(short)
    \/ RecvEOF
    \/ RecvTimeout
    \/ RecvReturn

SpecExchange == InitExchange /\ [][NextExchange]_vars

(***************************************************************************)
(* The data channel of one STOR, step by step: bind_random_port,           *)
(* wait_for_data_connection, receive_file_data and the closes of           *)
(* handle_stor, with peers that connect to the announced port.             *)
(***************************************************************************)
DcFrame == UNCHANGED <<core_vars, rt, tm, rd, last_activity, calc, lobby>>

\* bind_random_port: socket, bind, listen(1).
DcBind ==
    /\ dc.lsn = "none"
    /\ dc' = [dc EXCEPT !.lsn = "listening", !.phase = "waiting"]
    /\ DcFrame

\* A peer connects to the port: the kernel queues it while the socket
\* listens and its backlog has room.
PeerConnect ==
    /\ dc.lsn = "listening"
    /\ dc.peers < MaxPeers
    /\ dc' = [dc EXCEPT !.peers = @ + 1,
                        !.backlog = IF @ < ListenBacklog THEN @ + 1 ELSE @]
    /\ DcFrame

\* wait_for_data_connection: accept returns the queued peer.
DcAccept ==
    /\ dc.phase = "waiting"
    /\ dc.backlog > 0
    /\ dc' = [dc EXCEPT !.backlog = @ - 1, !.accepts = @ + 1,
                        !.phase = "transfer"]
    /\ rt' = [rt EXCEPT !.spc = "loop", !.rpc = "loop"]
    /\ UNCHANGED <<core_vars, tm, rd, last_activity, calc, lobby>>

\* wait_for_data_connection: accept times out; handle_stor sends 550 and
\* closes the listening socket.
DcTimeout ==
    /\ dc.phase = "waiting"
    /\ dc.backlog = 0
    /\ dc' = [dc EXCEPT !.lsn = "closed", !.phase = "failed"]
    /\ DcFrame

\* handle_stor after receive_file_data: data_conn.close() and
\* data_server_socket.close().
DcClose ==
    /\ dc.phase = "transfer"
    /\ rt.rpc = "returned"
    /\ dc' = [dc EXCEPT !.lsn = "closed", !.backlog = 0, !.phase = "closed"]
    /\ DcFrame

(***************************************************************************)
(* SpecDataChannel: one upload over a freshly bound data port.             *)
(***************************************************************************)
InitDataChannel ==
    /\ InitCore
    /\ dc = NoDC
    /\ tm = NoTM
    /\ rd = NoRead
    /\ last_activity = NoActivity
    /\ calc = NoCall
    /\ lobby = NoLobby
    /\ \E n \in FileSizes, sb \in BufferSizes, rb \in BufferSizes :
          rt = [NoRT EXCEPT !.total = n, !.expected = n, !.sbuf = sb,
                            !.rbuf = rb]

NextDataChannel ==
    \/ DcBind
    \/ PeerConnect
    \/ DcAccept
    \/ DcTimeout
    \/ DcClose
    \/ SendChunk
    \/ \E k \in PartialWrites : SendFail(k)
    \/ SendReturn
    \/ CloseData
    \/ \E short \in BOOLEAN : RecvChunk(short)
    \/ RecvEOF
    \/ RecvReturn

SpecDataChannel == InitDataChannel /\ [][NextDataChannel]_vars

(***************************************************************************)
(* The countdown of src/server.py.  start_exam_timer, update_server_timer  *)
(* and unlock_entries run on the window's event thread, one at a time;     *)
(* the session workers run beside them and change connected_students.      *)
(* A broadcast is a for loop over connected_students.items(): it is two    *)
(* steps here, the creation of the iterator and the rest of the loop, and  *)
(* a registry whose size changed in between makes the loop raise           *)
(* RuntimeError out of the function that runs it.                          *)
(***************************************************************************)
Registered == {i \in Identities : connected_students[i] # NoConn}

TimerFrame ==
    UNCHANGED <<connected_students, pending_logins, now, sock, pc, student_no,
                pending_username, cur_user, cur_pw, reply, last_cmd, authed,
                ncmds, xfer_vars, rt, dc, rd, last_activity, calc, lobby>>

\* "for s_no, data in connected_students.items()": the iterator is made.
BeginLoop(t, which) == [t EXCEPT !.gui = which, !.snap = Registered]

\* The dictionary changed size while the loop was running.
LoopRaises == Cardinality(Registered) # Cardinality(tm.snap)

\* One more CMD:TIME_UP for each of the sessions in got.
SendTimeUp(t, got) ==
    [t EXCEPT !.time_up = [i \in Identities |->
                              IF i \in got THEN @[i] + 1 ELSE @[i]]]

\* The body of update_server_timer up to its first loop, on window state t.
TimerBody(t) ==
    IF t.timer_running /\ exam_time_remaining' > 0
    THEN IF exam_time_remaining' % SyncEvery = 0
         THEN BeginLoop(t, "sync_loop")
         ELSE t
    ELSE IF t.timer_running /\ exam_time_remaining' <= 0
    THEN BeginLoop([t EXCEPT !.timer_running = FALSE], "timeup_loop")
    ELSE t

\* start_exam_timer up to the CMD:TIME_SECONDS loop.
start_exam_timer(mins) ==
    /\ tm.gui = "idle"
    /\ tm.starts < MaxStarts
    /\ exam_started' = TRUE
    /\ exam_time_remaining' = mins * 60
    /\ tm' = BeginLoop([tm EXCEPT !.timer_running = TRUE, !.starts = @ + 1],
                       "start_loop")
    /\ TimerFrame

\* start_exam_timer: the rest of the CMD:TIME_SECONDS loop and the direct
\* call of update_server_timer.
StartLoopEnd ==
    /\ tm.gui = "start_loop"
    /\ UNCHANGED <<exam_started, exam_time_remaining>>
    /\ tm' = IF LoopRaises
             THEN [tm EXCEPT !.gui = "idle"]
             ELSE TimerBody([tm EXCEPT !.gui = "idle",
                                       !.pushed = exam_time_remaining])
    /\ TimerFrame

\* A callback scheduled with root.after(1000, ...) fires:
\* update_server_timer up to its first loop.
update_server_timer ==
    /\ tm.gui = "idle"
    /\ tm.after > 0
    /\ UNCHANGED exam_started
    /\ LET t == [tm EXCEPT !.after = @ - 1]
           counting == tm.timer_running /\ exam_time_remaining > 0
           quiet == counting /\ exam_time_remaining % SyncEvery # 0
       IN  /\ exam_time_remaining' = IF quiet THEN exam_time_remaining - 1
                                              ELSE exam_time_remaining
           /\ tm' = IF quiet THEN [t EXCEPT !.after = @ + 1]
                             ELSE TimerBody(t)
    /\ TimerFrame

\* update_server_timer: the rest of the CMD:SYNC loop, the decrement and
\* root.after.
SyncLoopEnd ==
    /\ tm.gui = "sync_loop"
    /\ UNCHANGED exam_started
    /\ IF LoopRaises
       THEN /\ tm' = [tm EXCEPT !.gui = "idle"]
            /\ UNCHANGED exam_time_remaining
       ELSE /\ tm' = [tm EXCEPT !.gui = "idle", !.after = @ + 1,
                                !.pushed = exam_time_remaining]
            /\ exam_time_remaining' = exam_time_remaining - 1
    /\ TimerFrame

\* update_server_timer: the rest of the CMD:TIME_UP loop.
TimeUpLoopEnd ==
    /\ tm.gui = "timeup_loop"
    /\ UNCHANGED <<exam_started, exam_time_remaining>>
    /\ IF LoopRaises
       THEN \E got \in SUBSET tm.snap :
               tm' = [SendTimeUp(tm, got) EXCEPT !.gui = "idle"]
       ELSE tm' = [SendTimeUp(tm, Registered) EXCEPT !.gui = "idle"]
    /\ TimerFrame

\* What unlock_entries assigns.
UnlockKeepsTimer == [exam_started |-> FALSE, timer_running |-> TRUE,
                     exam_time_remaining |-> 0]

Unlocked == [exam_started |-> FALSE, timer_running |-> FALSE,
             exam_time_remaining |-> 0]

unlock_entries ==
    /\ tm.gui = "idle"
    /\ exam_started
    /\ exam_started' = Unlocked.exam_started
    /\ exam_time_remaining' = Unlocked.exam_time_remaining
    /\ tm' = [tm EXCEPT !.timer_running = Unlocked.timer_running]
    /\ TimerFrame

\* The guard of the window's extend_exam_time.
ExtendAlways(started, running) == TRUE

ExtendAllowed(started, running) == started /\ running

\* extend_exam_time of the window and of the server core behind it.
extend_exam_time(additional) ==
    /\ tm.gui = "idle"
    /\ tm.extends < MaxExtends
    /\ ExtendAllowed(exam_started, tm.timer_running)
    /\ exam_time_remaining' = exam_time_remaining + additional * 60
    /\ tm' = [tm EXCEPT !.extends = @ + 1,
                        !.pushed = exam_time_remaining + additional * 60]
    /\ UNCHANGED exam_started
    /\ TimerFrame

\* The identity that the client behind connection c logs in with.
Seat(c) == IF c = 1 THEN "415576" ELSE "415577"

\* A session that logs in once.
TimerLogin(c) == cur_user[c] = NoUser /\ LegacyLogin(c, 3, Seat(c), "good")

(***************************************************************************)
(* SpecTimer: sessions log in and leave while the teacher starts and       *)
(* unlocks the exam and the countdown runs.                                *)
(***************************************************************************)
NextTimer ==
    \/ \E c \in Active : TimerLogin(c) /\ NoTransfer
    \/ \E c \in Active : LegacyLoginVerify(c) /\ NoTransfer
    \/ \E c \in Active : ClientDrop(c, "reset") /\ NoTransfer
    \/ \E c \in Active : NoticeEOF(c) /\ NoTransfer
    \/ \E c \in Active : LegacyEnd(c) /\ NoTransfer
    \/ start_exam_timer(ExamMinutes)
    \/ StartLoopEnd
    \/ update_server_timer
    \/ SyncLoopEnd
    \/ TimeUpLoopEnd
    \/ unlock_entries

SpecTimer == Init /\ [][NextTimer]_vars

(***************************************************************************)
(* SpecExtend: one exam that the teacher extends or unlocks while one      *)
(* session is connected and uploads.                                       *)
(***************************************************************************)
SmallUploads ==
    {inp \in LegacyStorInputs :
        inp.nparts = 3 /\ inp.valid /\ inp.size = 2
            /\ inp.delivered = MAX_FILE_SIZE /\ inp.ending = "close"}

NextExtend ==
    \/ TimerLogin(1) /\ NoTransfer
    \/ LegacyLoginVerify(1) /\ NoTransfer
    \/ \E inp \in SmallUploads : Budget /\ LegacyStor(1, inp)
    \/ tm.starts = 0 /\ start_exam_timer(ExamMinutes)
    \/ StartLoopEnd
    \/ update_server_timer
    \/ SyncLoopEnd
    \/ TimeUpLoopEnd
    \/ unlock_entries
    \/ \E m \in 1..2 : extend_exam_time(m)

SpecExtend == Init /\ [][NextExtend]_vars

(***************************************************************************)
(* One read of the control channel by handle_client of src/server.py.      *)
(* The bytes read are a sequence of symbols: words, "SP" for a space and   *)
(* "NL" for a newline.                                                     *)
(***************************************************************************)
Blank == {"SP", "NL"}

\* The command lines a client writes.
CommandLines ==
    {<<"PING">>, <<"ping">>, <<"LIST">>, <<"QUIT">>,
     <<"LOGIN", "415576", "good">>}

Buffers == UNION {[1..n -> CommandLines] : n \in 1..MaxLines}

RECURSIVE EncodeLine(_)
EncodeLine(words) ==
    IF Len(words) = 1 THEN <<words[1], "NL">>
    ELSE <<words[1], "SP">> \o EncodeLine(Tail(words))

\* The bytes of the lines, each ended by a newline.
RECURSIVE Encode(_)
Encode(lines) ==
    IF lines = <<>> THEN <<>>
    ELSE EncodeLine(Head(lines)) \o Encode(Tail(lines))

\* str.strip()
RECURSIVE strip(_)
strip(data) ==
    IF data = <<>> THEN <<>>
    ELSE IF Head(data) \in Blank THEN strip(Tail(data))
    ELSE IF data[Len(data)] \in Blank
    THEN strip(SubSeq(data, 1, Len(data) - 1))
    ELSE data

\* str.split(" "): cur is the part being collected.
RECURSIVE split(_, _)
split(data, cur) ==
    IF data = <<>> THEN <<cur>>
    ELSE IF Head(data) = "SP" THEN <<cur>> \o split(Tail(data), <<>>)
    ELSE split(Tail(data), Append(cur, Head(data)))

\* str.upper() on one word and on a part.
UpperWord(w) == IF w = "ping" THEN "PING" ELSE w

upper(part) == [k \in 1..Len(part) |-> UpperWord(part[k])]

\* The password a part stands for: a part with anything glued to the
\* secret is not the secret.
PasswordOf(part) == IF part = <<"good">> THEN "good" ELSE "bad"

\* One pass of the loop of handle_client: recv, strip, split, dispatch.
LegacyRecv(c, lines, listOK) ==
    LET data == strip(Encode(lines))
        parts == split(data, <<>>)
        cmd == upper(parts[1])
    IN  /\ rd' = [c |-> c, lines |-> lines, dispatched |-> <<cmd>>]
        /\ UNCHANGED <<xfer_vars, rt, dc, tm, last_activity, calc, lobby>>
        /\ IF cmd = <<"LOGIN">>
           THEN LegacyLogin(c, Len(parts),
                            IF Len(parts) >= 2 /\ Len(parts[2]) = 1
                                   /\ parts[2][1] \in Identities
                            THEN parts[2][1] ELSE Student,
                            IF Len(parts) >= 3 THEN PasswordOf(parts[3])
                                               ELSE "bad")
           ELSE IF cmd = <<"LIST">> THEN LegacyList(c, listOK)
           ELSE IF cmd = <<"PING">> THEN LegacyPing(c)
           ELSE LegacyUnknown(c)

(***************************************************************************)
(* SpecLines: clients whose writes reach the server one or several lines   *)
(* per read.                                                               *)
(***************************************************************************)
NextLines ==
    \/ \E c \in Active, lines \in Buffers, listOK \in BOOLEAN :
          Budget /\ LegacyRecv(c, lines, listOK)
    \/ \E c \in Active : LegacyLoginVerify(c) /\ NoTransfer
    \/ \E c \in Active : LegacyEnd(c) /\ NoTransfer

SpecLines == Init /\ [][NextLines]_vars

(***************************************************************************)
(* handle_command for a keyword outside the command table, and             *)
(* handle_ping.  "how" is the client's end when the reply is sent: still   *)
(* there, or gone since it wrote the line.                                 *)
(***************************************************************************)
commands == {"USER", "PASS", "PASV", "QUIT", "LIST", "STOR", "RETR", "PING"}

Keywords == commands \cup {"NOOP", "LOGIN"}

\* The break flag of an unknown command that always ends the session.
UnknownAlwaysBreaks(ok) == TRUE

\* "if not self._safe_send(conn, 500): return ..., True" else "..., False"
UnknownBreaks(ok) == ~ok

CommandFrame ==
    UNCHANGED <<connected_students, pending_logins, exam_started,
                exam_time_remaining, now, cur_user, cur_pw, authed,
                xfer_vars, rt, dc, tm, rd, calc, lobby>>

handle_command_unknown(c, kw, how) ==
    /\ kw \notin commands
    /\ Dispatch(c, kw)
    /\ sock' = [sock EXCEPT ![c] = how]
    /\ \E ok \in SendOutcomes(how) :
          HandlerReturn(c, Sent(ok, R500), student_no[c], pending_username[c],
                        UnknownBreaks(ok))
    /\ UNCHANGED last_activity
    /\ CommandFrame

\* The entry a PING refreshes whatever the session's student_no names.
PingTouchesAny(reg, sn, c) == sn \in Identities

\* "if student_no in self.connected_students"
PingTouches(reg, sn, c) == sn \in Identities /\ reg[sn] # NoConn

handle_ping(c, how) ==
    /\ Dispatch(c, "PING")
    /\ sock' = [sock EXCEPT ![c] = how]
    /\ IF how = "open"
       THEN /\ HandlerReturn(c, <<RPong>>, student_no[c], pending_username[c],
                             FALSE)
            /\ last_activity' =
                   IF PingTouches(connected_students, student_no[c], c)
                   THEN [last_activity EXCEPT
                            ![student_no[c]] = [at |-> now, by |-> c]]
                   ELSE last_activity
       ELSE \* conn.send raises: the transport error ends the session
            /\ HandlerReturn(c, <<SendFailed>>, student_no[c],
                             pending_username[c], TRUE)
            /\ UNCHANGED last_activity
    /\ CommandFrame

\* The frame of a login step on the rest of the state: a new registry
\* entry starts with an empty delivery and last_activity = now.
SessionFrame ==
    /\ delivery_file' =
         [i \in Identities |->
             IF connected_students'[i] # connected_students[i]
             THEN "" ELSE delivery_file[i]]
    /\ last_activity' =
         [i \in Identities |->
             IF connected_students'[i] = connected_students[i]
             THEN last_activity[i]
             ELSE IF connected_students'[i] = NoConn
             THEN NoActivity[i]
             ELSE [at |-> now, by |-> connected_students'[i]]]
    /\ UNCHANGED <<passive_data_socket, passive_data_port, listener, storage,
                   effects, last_args, rt, dc, tm, rd, calc, lobby>>

(***************************************************************************)
(* SpecSession: two clients of one student log in, ask for a passive port, *)
(* ping and send keywords the server does not know, while pending logins   *)
(* time out and the exam starts.                                           *)
(***************************************************************************)
Gone == {"open", "reset"}

NextSession ==
    \/ \E c \in Active : Budget /\ UserBegin(c, TRUE, Student) /\ SessionFrame
    \/ \E c \in Active : UserLocked(c) /\ SessionFrame
    \/ \E c \in Active : UserReply(c) /\ SessionFrame
    \/ \E c \in Active : Budget /\ PassBegin(c, TRUE, "good") /\ SessionFrame
    \/ \E c \in Active : PassLocked(c) /\ SessionFrame
    \/ \E c \in Active : Budget /\ handle_pasv(c, TRUE, DATA_PORT_MIN)
    \/ \E c \in Active, kw \in Keywords \ commands, how \in Gone :
          Budget /\ handle_command_unknown(c, kw, how)
    \/ \E c \in Active, how \in Gone : Budget /\ handle_ping(c, how)
    \/ \E c \in Active : SessionEnd(c) /\ SessionFrame
    \/ StartExam /\ SessionFrame
    \/ AdvanceTime /\ SessionFrame

SpecSession == Init /\ [][NextSession]_vars

(***************************************************************************)
(* The passive-mode announce (src/network_utils.py).  A text is a sequence *)
(* of characters; str and int are the decimal conversions of Python.       *)
(***************************************************************************)
Digit == <<"0", "1", "2", "3", "4", "5", "6", "7", "8", "9">>

IsDigit(ch) == \E d \in 1..Len(Digit) : Digit[d] = ch

DigitVal(ch) == (CHOOSE d \in 1..Len(Digit) : Digit[d] = ch) - 1

\* str(n) of a natural number.
RECURSIVE str(_)
str(n) ==
    IF n < Len(Digit) THEN <<Digit[n + 1]>>
    ELSE Append(str(n \div Len(Digit)), Digit[(n % Len(Digit)) + 1])

\* int(s) raises ValueError unless s is a numeral.
IntRaises(s) == s = <<>> \/ \E k \in 1..Len(s) : ~IsDigit(s[k])

RECURSIVE int(_)
int(s) ==
    IF s = <<>> THEN 0
    ELSE int(SubSeq(s, 1, Len(s) - 1)) * Len(Digit) + DigitVal(s[Len(s)])

\* s.replace(a, b) for single characters.
replace(s, a, b) == [k \in 1..Len(s) |-> IF s[k] = a THEN b ELSE s[k]]

\* s.find(ch): index from 0 of the first occurrence, -1 when there is none.
find(s, ch) ==
    IF \E k \in 1..Len(s) : s[k] = ch
    THEN (CHOOSE k \in 1..Len(s) :
              s[k] = ch /\ \A j \in 1..(k - 1) : s[j] # ch) - 1
    ELSE -1

\* s.split(sep): cur is the part being collected.
RECURSIVE split_on(_, _, _)
split_on(s, sep, cur) ==
    IF s = <<>> THEN <<cur>>
    ELSE IF Head(s) = sep THEN <<cur>> \o split_on(Tail(s), sep, <<>>)
    ELSE split_on(Tail(s), sep, Append(cur, Head(s)))

Prefix227 ==
    <<"2", "2", "7", " ", "E", "n", "t", "e", "r", "i", "n", "g", " ",
      "P", "a", "s", "s", "i", "v", "e", " ", "M", "o", "d", "e", " ">>

\* The two port bytes swapped when read back.
CombineSwapped(hi, lo) == lo * 256 + hi

\* int(parts[4]) * 256 + int(parts[5])
Combine(hi, lo) == hi * 256 + lo

format_passive_response(ip, port) ==
    LET ip_parts == replace(ip, ".", ",")
    IN  Prefix227 \o <<"(">> \o ip_parts \o <<",">> \o str(port \div 256)
            \o <<",">> \o str(port % 256) \o <<")", "\n">>

\* The parts of the text between the parentheses.
PassiveParts(passive_msg) ==
    LET start_idx == find(passive_msg, "(")
        end_idx == find(passive_msg, ")")
        \* passive_msg[start_idx+1:end_idx]
        port_str == SubSeq(passive_msg, start_idx + 2, end_idx)
    IN  IF start_idx # -1 /\ end_idx # -1
        THEN split_on(port_str, ",", <<>>) ELSE <<>>

None == [none |-> TRUE, val |-> 0]

parse_passive_port(passive_msg) ==
    LET parts == PassiveParts(passive_msg)
    IN  IF Len(parts) >= 6
        THEN IF IntRaises(parts[5]) \/ IntRaises(parts[6]) THEN None
             ELSE [none |-> FALSE,
                   val |-> Combine(int(parts[5]), int(parts[6]))]
        ELSE None

Dotted(a, b, c, d) ==
    str(a) \o <<".">> \o str(b) \o <<".">> \o str(c) \o <<".">> \o str(d)

\* Addresses the server announces.
Addresses ==
    {Dotted(127, 0, 0, 1), Dotted(10, 0, 2, 15), Dotted(192, 168, 1, 255)}

\* Every port a listener can be bound to.
AnnouncedPorts == 1..DATA_PORT_MAX

\* The frame of a call of a pure function.
CalcFrame == UNCHANGED <<core_vars, rt, dc, tm, rd, last_activity, lobby>>

InitCalc ==
    /\ InitCore
    /\ rt = NoRT
    /\ dc = NoDC
    /\ tm = NoTM
    /\ rd = NoRead
    /\ last_activity = NoActivity
    /\ lobby = NoLobby

InitPassive ==
    /\ InitCalc
    /\ \E ip \in Addresses, port \in AnnouncedPorts :
          calc = [fn |-> "passive", at |-> "server", ip |-> ip,
                  port |-> port, msg |-> <<>>, result |-> None]

\* The server formats the announce and sends it.
PassiveFormat ==
    /\ calc.fn = "passive"
    /\ calc.at = "server"
    /\ calc' = [calc EXCEPT !.at = "wire",
                   !.msg = format_passive_response(calc.ip, calc.port)]
    /\ CalcFrame

\* The client reads the announce and parses it.
PassiveParse ==
    /\ calc.fn = "passive"
    /\ calc.at = "wire"
    /\ calc' = [calc EXCEPT !.at = "client",
                   !.result = parse_passive_port(calc.msg)]
    /\ CalcFrame

NextPassive ==
    \/ PassiveFormat
    \/ PassiveParse

SpecPassive == InitPassive /\ [][NextPassive]_vars

(***************************************************************************)
(* The number game (src/app/game/logic.py): three pure functions.          *)
(***************************************************************************)
\* digits = list("0123456789")
digits == Digit

\* random.choice per position: positions of the population, with repeats.
choices(population, k) ==
    {[j \in 1..k |-> population[idx[j]]] :
        idx \in [1..k -> 1..Len(population)]}

\* random.sample(population, k): k different positions of the population.
sample(population, k) ==
    {[j \in 1..k |-> population[idx[j]]] :
        idx \in {f \in [1..k -> 1..Len(population)] :
                    \A a, b \in 1..k : a # b => f[a] # f[b]}}

generate_secret(unique_digits) ==
    IF unique_digits THEN sample(digits, SecretLength)
    ELSE choices(digits, SecretLength)

\* s.count(d)
count(s, d) == Cardinality({k \in 1..Len(s) : s[k] = d})

RECURSIVE SumOver(_, _, _)
SumOver(set, secret, guess) ==
    IF set = {} THEN 0
    ELSE LET d == CHOOSE x \in set : TRUE
         IN  Min(count(secret, d), count(guess, d))
                 + SumOver(set \ {d}, secret, guess)

\* Every position of the guess whose digit occurs in the secret counted,
\* whatever the number of occurrences.
SharedPerPosition(secret, guess) ==
    Len(SelectSeq(guess, LAMBDA d : count(secret, d) > 0))

\* sum(min(secret.count(d), guess.count(d)) for d in set(guess))
Shared(secret, guess) ==
    SumOver({guess[k] : k \in 1..Len(guess)}, secret, guess)

\* sum(1 for s, g in zip(secret, guess) if s == g)
Plus(secret, guess) ==
    Cardinality({k \in 1..Min(Len(secret), Len(guess)) :
                    secret[k] = guess[k]})

Raised == [raised |-> TRUE, plus |-> 0, minus |-> 0, is_clean_miss |-> FALSE]

evaluate_guess(secret, guess) ==
    IF Len(secret) # SecretLength \/ Len(guess) # SecretLength
    THEN Raised
    ELSE LET plus == Plus(secret, guess)
             shared == Shared(secret, guess)
         IN  [raised |-> FALSE, plus |-> plus, minus |-> shared - plus,
              is_clean_miss |-> (shared = 0)]

Max(a, b) == IF a > b THEN a ELSE b

\* The linear decay without its floor.
base_points_uncapped(position) == 120 - (position - 1) * 20

base_points_for_position(position) == Max(30, 120 - (position - 1) * 20)

\* position is None or an integer.
Some(v) == [none |-> FALSE, val |-> v]

calculate_guess_score(position, plus, minus, is_clean_miss) ==
    LET score0 == plus * 2 + minus
        score1 == IF is_clean_miss THEN score0 + 5 ELSE score0
    IN  IF ~position.none
        THEN score1 + base_points_for_position(position.val)
        ELSE score1

\* Secrets and guesses of the right length, and texts of a wrong one.
SecretTexts == [1..SecretLength -> {"6", "7", "8", "9"}]

GuessTexts == [1..SecretLength -> {"1", "2", "3", "4", "6", "7", "8", "9"}]

WrongLength ==
    {<<>>, <<"1", "2", "3">>, <<"1", "2", "3", "4", "5">>}

Positions == {None} \cup {Some(v) : v \in 0..MaxPosition}

InitGame ==
    /\ InitCalc
    /\ \/ \E secret \in SecretTexts \cup WrongLength,
             guess \in GuessTexts \cup WrongLength :
             calc = [fn |-> "evaluate_guess", at |-> "call",
                     secret |-> secret, guess |-> guess, result |-> Raised]
       \/ \E position \in Positions, plus \in 0..SecretLength,
             minus \in 0..SecretLength, is_clean_miss \in BOOLEAN :
             calc = [fn |-> "calculate_guess_score", at |-> "call",
                     position |-> position, plus |-> plus, minus |-> minus,
                     is_clean_miss |-> is_clean_miss, result |-> 0]
       \/ \E unique_digits \in BOOLEAN :
             calc = [fn |-> "generate_secret", at |-> "call",
                     unique_digits |-> unique_digits, result |-> <<>>]

EvaluateReturns ==
    /\ calc.fn = "evaluate_guess"
    /\ calc.at = "call"
    /\ ~evaluate_guess(calc.secret, calc.guess).raised
    /\ calc' = [calc EXCEPT !.at = "return",
                   !.result = evaluate_guess(calc.secret, calc.guess)]
    /\ CalcFrame

EvaluateRaises ==
    /\ calc.fn = "evaluate_guess"
    /\ calc.at = "call"
    /\ evaluate_guess(calc.secret, calc.guess).raised
    /\ calc' = [calc EXCEPT !.at = "raise", !.result = Raised]
    /\ CalcFrame

CalculateScore ==
    /\ calc.fn = "calculate_guess_score"
    /\ calc.at = "call"
    /\ calc' = [calc EXCEPT !.at = "return",
                   !.result = calculate_guess_score(calc.position, calc.plus,
                                  calc.minus, calc.is_clean_miss)]
    /\ CalcFrame

GenerateSecret ==
    /\ calc.fn = "generate_secret"
    /\ calc.at = "call"
    /\ \E secret \in generate_secret(calc.unique_digits) :
          calc' = [calc EXCEPT !.at = "return", !.result = secret]
    /\ CalcFrame

NextGame ==
    \/ EvaluateReturns
    \/ EvaluateRaises
    \/ CalculateScore
    \/ GenerateSecret

SpecGame == InitGame /\ [][NextGame]_vars

(***************************************************************************)
(* LobbyManager of src/app/game/manager.py: one lobby, its players and     *)
(* time.time().  Every public method runs under the manager's lock, so a   *)
(* call is one step; the exception it raises or the message it returns is  *)
(* kept in lobby.result.                                                   *)
(***************************************************************************)
LobbyFrame ==
    UNCHANGED <<core_vars, rt, dc, tm, rd, last_activity, calc>>

\* The secret of the lobby and the guesses the players send.
LobbySecrets == {<<"1", "2", "3", "4">>}
LobbyGuesses ==
    {<<"1", "2", "3", "4">>, <<"1", "2", "4", "3">>, <<"6", "7", "8", "9">>,
     <<"1", "2", "3">>, <<"1", "2", "3", "x">>}

\* guess.isdigit()
isdigit(text) == text # <<>> /\ \A k \in 1..Len(text) : IsDigit(text[k])

\* LobbyManager._evaluate_guess
lobby_evaluate_guess(secret, guess) ==
    IF Len(guess) # GuessLength \/ ~isdigit(guess)
    THEN [raised |-> TRUE, plus |-> 0, minus |-> 0, is_correct |-> FALSE,
          bonus_points |-> 0]
    ELSE LET plus == Plus(secret, guess)
             minus == SharedPerPosition(secret, guess) - plus
         IN  [raised |-> FALSE, plus |-> plus, minus |-> minus,
              is_correct |-> (plus = GuessLength),
              bonus_points |-> IF plus = 0 /\ minus = 0
                               THEN NO_MATCH_BONUS_POINTS ELSE 0]

\* LobbyManager._correct_points_for_round
correct_points_for_round(round_no) ==
    Max(MIN_CORRECT_POINTS,
        BASE_CORRECT_POINTS - (round_no - 1) * CORRECT_DECAY_PER_ROUND)

Joined(l) == {p \in Players : l.players[p].joined}

active_players(l) == {p \in Joined(l) : ~l.players[p].is_spectator}

\* LobbyManager._check_round_or_game_end
check_round_or_game_end(l) ==
    IF l.status # "running" THEN l
    ELSE IF active_players(l) = {} THEN [l EXCEPT !.status = "finished"]
    ELSE IF (\A p \in active_players(l) : l.players[p].has_solved)
            \/ l.round_no >= MAX_ROUNDS
    THEN [l EXCEPT !.status = "finished"]
    ELSE IF \A p \in active_players(l) :
               l.players[p].has_guessed \/ l.players[p].has_solved
    THEN [l EXCEPT
            !.round_no = @ + 1,
            !.round_deadline = l.clock + ROUND_DURATION_SECONDS,
            !.players = [p \in Players |->
                           IF p \in active_players(l)
                                /\ ~l.players[p].has_solved
                           THEN [l.players[p] EXCEPT !.has_guessed = FALSE]
                           ELSE l.players[p]]]
    ELSE l

\* The last call and what it raised or returned.
Result(op, p, out) == [op |-> op, player_id |-> p, guess |-> <<>>, out |-> out]

GuessResult(p, guess, out) ==
    [op |-> "submit_guess", player_id |-> p, guess |-> guess, out |-> out]

\* _generate_player_id: an id no player has yet.
NewPlayer(p) ==
    /\ ~lobby.players[p].joined
    /\ \A q \in Players : q < p => lobby.players[q].joined

create_lobby(p) ==
    /\ lobby.status = "none"
    /\ NewPlayer(p)
    /\ lobby' = [lobby EXCEPT
                   !.status = "waiting",
                   !.owner_id = p,
                   !.players[p] = [NoPlayer EXCEPT !.joined = TRUE],
                   !.result = Result("create_lobby", p, "owner")]
    /\ LobbyFrame

join_lobby(p) ==
    /\ lobby.status # "none"
    /\ NewPlayer(p)
    /\ LET is_spectator == lobby.status # "waiting"
       IN  lobby' = [lobby EXCEPT
                      !.players[p] = [NoPlayer EXCEPT
                                        !.joined = TRUE,
                                        !.is_spectator = is_spectator],
                      !.result = Result("join_lobby", p,
                                        IF is_spectator THEN "spectator"
                                                        ELSE "player")]
    /\ LobbyFrame

start_round(p) ==
    /\ lobby.status # "none"
    /\ lobby.players[p].joined
    /\ LobbyFrame
    /\ IF lobby.owner_id # p
       THEN lobby' = [lobby EXCEPT
                        !.result = Result("start_round", p, "PermissionError")]
       ELSE IF lobby.status = "running"
       THEN lobby' = [lobby EXCEPT
                        !.result = Result("start_round", p, "Oyun zaten baslamis.")]
       ELSE IF lobby.status = "finished"
       THEN lobby' = [lobby EXCEPT
                        !.result = Result("start_round", p,
                                          "Bu lobi icin oyun tamamlanmis.")]
       ELSE \E secret \in LobbySecrets :
              lobby' = [lobby EXCEPT
                          !.secret_number = secret,
                          !.status = "running",
                          !.round_no = 1,
                          !.round_deadline =
                              lobby.clock + ROUND_DURATION_SECONDS,
                          !.players =
                              [q \in Players |->
                                  IF lobby.players[q].joined
                                       /\ ~lobby.players[q].is_spectator
                                  THEN [lobby.players[q] EXCEPT
                                          !.has_guessed = FALSE,
                                          !.has_solved = FALSE,
                                          !.score = 0]
                                  ELSE lobby.players[q]],
                          !.result = Result("start_round", p, "round_started")]

submit_guess(p, guess) ==
    /\ lobby.status # "none"
    /\ lobby.players[p].joined
    /\ LobbyFrame
    /\ LET player == lobby.players[p]
           raise(out) ==
               [lobby EXCEPT !.result = GuessResult(p, guess, out)]
           ev == lobby_evaluate_guess(lobby.secret_number, guess)
           solves == ev.is_correct /\ ~player.has_solved
           score_change ==
               (IF solves THEN correct_points_for_round(lobby.round_no)
                          ELSE 0) + ev.bonus_points
           guessed ==
               [lobby EXCEPT
                  !.players[p] = [player EXCEPT
                                    !.has_solved = @ \/ solves,
                                    !.score = @ + score_change,
                                    !.has_guessed = TRUE]]
       IN  IF player.is_spectator
           THEN lobby' = raise("Seyirciler tahmin yapamaz.")
           ELSE IF lobby.status # "running"
           THEN lobby' = raise("Oyun su anda calismiyor.")
           ELSE IF lobby.secret_number = <<>>
           THEN lobby' = raise("Gizli sayi henuz olusturulmadi.")
           ELSE IF lobby.round_deadline # 0
                     /\ lobby.clock > lobby.round_deadline
           THEN lobby' = raise("Bu turun suresi doldu.")
           ELSE IF player.has_guessed
           THEN lobby' = raise("Bu tur icin zaten tahmin yaptin.")
           ELSE IF ev.raised
           THEN lobby' = raise("Tahmin 4 haneli bir sayi olmali.")
           ELSE lobby' =
                  [check_round_or_game_end(guessed) EXCEPT
                     !.result = GuessResult(p, guess, "guess_result")]

\* time.time() moves on, past the deadline of a round that is running.
LobbyTick ==
    /\ lobby.clock < MaxLobbyTicks * (ROUND_DURATION_SECONDS + 1)
    /\ lobby' = [lobby EXCEPT !.clock = @ + ROUND_DURATION_SECONDS + 1]
    /\ LobbyFrame

InitLobby ==
    /\ InitCore
    /\ rt = NoRT
    /\ dc = NoDC
    /\ tm = NoTM
    /\ rd = NoRead
    /\ last_activity = NoActivity
    /\ calc = NoCall
    /\ lobby = NoLobby

NextLobby ==
    \/ \E p \in Players : create_lobby(p)
    \/ \E p \in Players : join_lobby(p)
    \/ \E p \in Players : start_round(p)
    \/ \E p \in Players, guess \in LobbyGuesses : submit_guess(p, guess)
    \/ LobbyTick

(***************************************************************************)
(* SpecLobby: the lobby under any calls.  SpecLobbyFair: time moves on     *)
(* and every player keeps sending guesses; the event loop serves each call *)
(* that arrives.                                                           *)
(***************************************************************************)
SpecLobby == InitLobby /\ [][NextLobby]_vars

SpecLobbyFair ==
    /\ SpecLobby
    /\ WF_vars(LobbyTick)
    /\ \A p \in Players :
          SF_vars(\E guess \in LobbyGuesses : submit_guess(p, guess))

(***************************************************************************)
(* The handler of src/protocol_handlers.py: the same commands with no      *)
(* lock and no pending-login registry.  A worker can be preempted between  *)
(* the duplicate check, the registry write and the reply.                  *)
(***************************************************************************)
FreeFrame ==
    UNCHANGED <<pending_logins, exam_time_remaining, now, sock, xfer_vars,
                side_vars>>

\* handle_user
FreeUser(c, i) ==
    /\ Dispatch(c, "USER")
    /\ IF exam_started
       THEN /\ HandlerReturn(c, <<RGirisYasak>>, student_no[c],
                             pending_username[c], TRUE)
            /\ UNCHANGED cur_user
       ELSE /\ HandlerReturn(c, <<R331>>, i, i, FALSE)
            /\ cur_user' = [cur_user EXCEPT ![c] = i]
    /\ UNCHANGED <<connected_students, exam_started, cur_pw, authed>>
    /\ FreeFrame

\* handle_pass up to the duplicate check.
FreePass(c, pw) ==
    /\ Dispatch(c, "PASS")
    /\ IF pending_username[c] = NoUser
       THEN /\ HandlerReturn(c, <<R503>>, student_no[c],
                             pending_username[c], FALSE)
            /\ UNCHANGED cur_pw
       ELSE IF connected_students[pending_username[c]] # NoConn
       THEN /\ HandlerReturn(c, <<RZaten>>, pending_username[c],
                             pending_username[c], TRUE)
            /\ UNCHANGED cur_pw
       ELSE /\ pc' = [pc EXCEPT ![c] = "free_verify"]
            /\ cur_pw' = [cur_pw EXCEPT ![c] = pw]
            /\ UNCHANGED <<reply, student_no, pending_username>>
    /\ UNCHANGED <<connected_students, exam_started, cur_user, authed>>
    /\ FreeFrame

\* handle_login_legacy up to the duplicate check.
FreeLogin(c, i, pw) ==
    /\ Dispatch(c, "LOGIN")
    /\ IF exam_started
       THEN /\ HandlerReturn(c, <<RGirisYasak>>, student_no[c],
                             pending_username[c], TRUE)
            /\ UNCHANGED <<cur_user, cur_pw>>
       ELSE IF connected_students[i] # NoConn
       THEN /\ HandlerReturn(c, <<RZaten>>, i, pending_username[c], TRUE)
            /\ UNCHANGED <<cur_user, cur_pw>>
       ELSE /\ pc' = [pc EXCEPT ![c] = "free_verify_login"]
            /\ cur_user' = [cur_user EXCEPT ![c] = i]
            /\ cur_pw' = [cur_pw EXCEPT ![c] = pw]
            /\ UNCHANGED <<reply, student_no, pending_username>>
    /\ UNCHANGED <<connected_students, exam_started, authed>>
    /\ FreeFrame

\* verify_student, then the registry write or the 530.
FreeVerify(c) ==
    /\ pc[c] \in {"free_verify", "free_verify_login"}
    /\ LET i == cur_user[c]
       IN  IF verify_student(i, cur_pw[c])
           THEN /\ connected_students' = [connected_students EXCEPT ![i] = c]
                /\ pc' = [pc EXCEPT ![c] =
                             IF pc[c] = "free_verify" THEN "free_reply"
                             ELSE "free_reply_login"]
                /\ UNCHANGED <<reply, student_no, pending_username>>
           ELSE /\ HandlerReturn(c,
                       IF pc[c] = "free_verify" THEN <<R530>>
                       ELSE <<R530Hatali>>,
                       UNKNOWN, pending_username[c], FALSE)
                /\ UNCHANGED connected_students
    /\ cur_pw' = [cur_pw EXCEPT ![c] = "bad"]
    /\ UNCHANGED <<exam_started, cur_user, last_cmd, authed, ncmds>>
    /\ FreeFrame

\* 230, then the time sync of a running exam.
FreeReply(c) ==
    /\ pc[c] \in {"free_reply", "free_reply_login"}
    /\ HandlerReturn(c,
           <<IF pc[c] = "free_reply" THEN R230 ELSE R230Legacy>>
               \o (IF exam_started /\ exam_time_remaining > 0
                   THEN <<RSync>> ELSE <<>>),
           cur_user[c], NoUser, FALSE)
    /\ authed' = [authed EXCEPT ![c] = TRUE]
    /\ UNCHANGED <<connected_students, exam_started, cur_user, cur_pw,
                   last_cmd, ncmds>>
    /\ FreeFrame

\* SpecLockFree: connections that each log in once, by USER and PASS or by
\* LOGIN, while the teacher may start the exam.
NextLockFree ==
    \/ \E c \in Conns, i \in Identities :
          cur_user[c] = NoUser /\ FreeUser(c, i)
    \/ \E c \in Conns, pw \in Secrets : Budget /\ FreePass(c, pw)
    \/ \E c \in Conns, i \in Identities, pw \in Secrets :
          cur_user[c] = NoUser /\ FreeLogin(c, i, pw)
    \/ \E c \in Conns : FreeVerify(c)
    \/ \E c \in Conns : FreeReply(c)
    \/ \E c \in Conns : SessionEnd(c) /\ NoTransfer
    \/ StartExam /\ NoTransfer

SpecLockFree == Init /\ [][NextLockFree]_vars

(***************************************************************************)
(* C1: connections racing USER i then PASS with the right secret, all      *)
(* staying connected, exam not started: never two of them hold 230, and    *)
(* once all of them are through exactly one was answered 230 and every     *)
(* other one 550 ZATEN_BAGLI.                                              *)
(***************************************************************************)
Racers(i) == {c \in Conns : cur_user[c] = i}

RaceDone(c) == pc[c] = "ended" \/ (pc[c] = "loop" /\ authed[c])

ReplacedOnlyWhenDead ==
    \A i \in Identities :
        LET h == connected_students[i]
        IN  (/\ h # NoConn
             /\ connected_students'[i] # h
             /\ pc'[h] = pc[h])
            => /\ sock[h] # "open"
               /\ sock'[h] = "closed"

RejectedNotRecorded ==
    \A c \in Conns :
        (reply[c] = <<RZaten>> /\ cur_user[c] # NoUser)
            => connected_students[cur_user[c]] # c

C2_LiveEntryKept == [][ReplacedOnlyWhenDead]_vars /\ []RejectedNotRecorded

C2_Witness ==
    \E c, d \in Conns :
        /\ c # d
        /\ connected_students[Student] = c
        /\ sock[c] = "open"
        /\ reply[d] = <<RZaten>>
        /\ cur_user[d] = Student

(***************************************************************************)
(* C4: a handle whose client has disconnected never causes 550             *)
(* ZATEN_BAGLI: when USER or PASS for identity i is answered 550           *)
(* ZATEN_BAGLI, the registry does not record for i another connection      *)
(* whose client is gone.                                                   *)
(***************************************************************************)
C4_DeadHandleNeverBlocks ==
    [][\A c \in Conns :
          (/\ pc[c] \in {"user_lock", "pass_lock"}
           /\ pc'[c] = "ending"
           /\ reply'[c] = <<RZaten>>)
          => LET h == connected_students[cur_user[c]]
             IN  ~(h # NoConn /\ h # c /\ sock[h] # "open")]_vars

(***************************************************************************)
(* C3: when a session's disconnect cleanup removes the Identity Registry   *)
(* entry of an identity, the handle stored in that entry was the           *)
(* disconnecting session's own; a connection answered 550 ZATEN_BAGLI or   *)
(* 530 never removes the entry of the session that holds the identity.     *)
(***************************************************************************)
C3_CleanupOwnHandleOnly ==
    [][\A c \in Conns, i \in Identities :
          (/\ pc[c] = "ending"
           /\ pc'[c] = "ended"
           /\ connected_students[i] # NoConn
           /\ connected_students'[i] = NoConn)
          => connected_students[i] = c]_vars

(***************************************************************************)
(* C5: PASV, LIST, STOR and RETR of a session that has not completed a     *)
(* successful PASS, a session awaiting its password after 331 included,    *)
(* are answered 530, bind no data port and read or store no file.          *)
(***************************************************************************)
C5_GateBeforeLogin ==
    \A c \in Conns :
        (last_cmd[1] = c /\ last_cmd[2] \in DataCommands /\ ~authed[c])
            => /\ reply[c] = <<R530Gate>>
               /\ effects = NoEffects
               /\ listener = <<>>
               /\ storage = {}

(***************************************************************************)
(* C6: after a login with wrong credentials is answered 530 the session    *)
(* is unauthenticated again: its identity is "Bilinmiyor", the registry    *)
(* does not record it for the identity it tried, and LIST and STOR of a    *)
(* session that never logged in successfully are answered 530.             *)
(***************************************************************************)
C6_FailedLoginReverts ==
    \A c \in Conns :
        /\ reply[c] \in {<<R530>>, <<R530Hatali>>}
             => /\ student_no[c] = UNKNOWN
                /\ connected_students[cur_user[c]] # c
                /\ pending_logins[cur_user[c]].conn # c
        /\ (last_cmd[1] = c /\ last_cmd[2] \in DataCommands /\ ~authed[c]
               /\ pc[c] = "loop")
             => reply[c] \in {<<R530Gate>>, <<R530Once>>}

(***************************************************************************)
(* C8: while the exam is not started, STOR and RETR of an authenticated    *)
(* session are answered 550 SINAV_BASLAMADI_YUKLEME_YASAK and 550          *)
(* SINAV_BASLAMADI_INDIRME_YASAK; nothing is bound, no accept is           *)
(* attempted, the passive socket and port stay as they were and the        *)
(* session stays open.                                                     *)
(***************************************************************************)
Authenticated(c) ==
    /\ student_no[c] \in Identities
    /\ connected_students[student_no[c]] = c

C8_NoTransferBeforeExam ==
    [][\A c \in Conns :
          (/\ ~exam_started
           /\ Authenticated(c)
           /\ ncmds' = ncmds + 1
           /\ last_cmd'[1] = c
           /\ last_cmd'[2] \in {"STOR", "RETR"})
          => /\ reply'[c] = IF last_cmd'[2] = "STOR" THEN <<RYuklemeYasak>>
                                                     ELSE <<RIndirmeYasak>>
             /\ effects' = NoEffects
             /\ listener' = listener
             /\ passive_data_socket'[c] = passive_data_socket[c]
             /\ passive_data_port'[c] = passive_data_port[c]
             /\ pc'[c] = "loop"]_vars

C8_Witness ==
    /\ ~exam_started
    /\ Authenticated(1)
    /\ last_cmd = <<1, "STOR">>
    /\ last_args.nparts = 3
    /\ reply[1] = <<RYuklemeYasak>>
    /\ passive_data_socket[1] # 0
    /\ listener[passive_data_socket[1]] = "listening"

(***************************************************************************)
(* C9: a STOR that passed the login and exam gates and declares a size     *)
(* over the ceiling (50 MiB) is answered 550 File too large with no call   *)
(* of bind_random_port, no 227 or 150, the passive socket and port as      *)
(* they were and the session open; a declared size equal to the ceiling    *)
(* is not refused.                                                         *)
(***************************************************************************)
C9_CeilingBeforePort ==
    [][\A c \in Conns :
          (/\ exam_started
           /\ student_no[c] # UNKNOWN
           /\ ncmds' = ncmds + 1
           /\ last_cmd' = <<c, "STOR">>
           /\ last_args'.nparts >= 3
           /\ last_args'.valid)
          => /\ last_args'.size > 50 * 1024 * 1024
                  => /\ reply'[c] = <<RTooLarge>>
                     /\ ~effects'.bind
                     /\ listener' = listener
                     /\ passive_data_socket'[c] = passive_data_socket[c]
                     /\ passive_data_port'[c] = passive_data_port[c]
                     /\ pc'[c] = "loop"
             /\ last_args'.size = 50 * 1024 * 1024
                  => reply'[c] # <<RTooLarge>>]_vars

C9_Witness ==
    /\ last_cmd = <<1, "STOR">>
    /\ last_args.size = 50 * 1024 * 1024 + 1
    /\ reply[1] = <<RTooLarge>>
    /\ passive_data_socket[1] # 0
    /\ listener[passive_data_socket[1]] = "listening"

(***************************************************************************)
(* C10: a STOR that received fewer bytes than it declared leaves no file   *)
(* with the partial content under the final filename, and 226 is sent      *)
(* for a STOR only when the file of the declared size is in storage.       *)
(***************************************************************************)
C10_NoPartialFile ==
    /\ \A f \in storage : f.size = f.declared
    /\ \A c \in Conns :
          (/\ last_cmd = <<c, "STOR">>
           /\ reply[c] # <<>>
           /\ reply[c][Len(reply[c])] \in {R226, R226Legacy})
          => \E f \in storage : /\ f.name = last_args.name
                                /\ f.size = last_args.size

(***************************************************************************)
(* C7: while the exam is started a USER line, with or without argument,    *)
(* is answered 550 SINAV_BASLADI_GIRIS_YASAK, ends the connection and      *)
(* leaves both registries as they were.                                    *)
(***************************************************************************)
C7_NoLoginDuringExam ==
    [][\A c \in Conns :
          (exam_started /\ ncmds' = ncmds + 1 /\ last_cmd' = <<c, "USER">>)
          => /\ reply'[c] = <<RGirisYasak>>
             /\ pc'[c] = "ending"
             /\ connected_students' = connected_students
             /\ pending_logins' = pending_logins]_vars

C7_Witness ==
    \E c \in Conns :
        /\ last_cmd = <<c, "USER">>
        /\ reply[c] = <<RGirisYasak>>
        /\ pc[c] = "ended"
        /\ \E i \in Identities : connected_students[i] \notin {NoConn, c}

(***************************************************************************)
(* C11: when send_file_data(D) and receive_file_data(expected_size =       *)
(* len(D)) run on the two ends of a data connection, the sender returns    *)
(* len(D) and the receiver returns D and len(D), however the reads split   *)
(* the stream.                                                             *)
(***************************************************************************)
WholeFile(n) == IF n = 0 THEN <<>> ELSE <<[lo |-> 0, hi |-> n]>>

C11_RoundTrip ==
    /\ rt.spc = "raised" => rt.sfail
    /\ rt.spc = "returned" => rt.sret = rt.total
    /\ rt.rpc = "returned" /\ ~rt.sfail => /\ rt.received = rt.total
                                            /\ rt.data = WholeFile(rt.total)

C11_Witness ==
    /\ rt.rpc = "returned"
    /\ rt.spc = "returned"
    /\ rt.total = 2 * MinBuffer + 1
    /\ rt.shorts = 2

(***************************************************************************)
(* C12: a data-channel listening socket accepts at most once, and once     *)
(* its peer has been accepted the listening socket is closed, so no        *)
(* further connection is queued or accepted during or after the transfer.  *)
(***************************************************************************)
C12_ListenerSingleUse ==
    /\ dc.accepts <= 1
    /\ dc.accepts = 1 => /\ dc.lsn = "closed"
                         /\ dc.backlog = 0

(***************************************************************************)
(* C13: when the countdown of an exam has run down to zero, every session  *)
(* in the registry is sent CMD:TIME_UP exactly once, and CMD:TIME_UP is    *)
(* never sent while the counter is above zero.                             *)
(***************************************************************************)
C13_TimeUpOnce ==
    [][/\ tm'.time_up # tm.time_up => exam_time_remaining <= 0
       /\ \A i \in Identities : tm'.time_up[i] <= tm.time_up[i] + 1
       /\ (tm.gui = "timeup_loop" /\ tm'.gui = "idle")
              => \A i \in Registered : tm'.time_up[i] = tm.time_up[i] + 1]_vars

(***************************************************************************)
(* C14: when the countdown reaches zero the started flag becomes false,    *)
(* so that logins are accepted again.                                      *)
(***************************************************************************)
C14_TimeUpReopens ==
    [][(tm.timer_running /\ tm'.gui = "timeup_loop" /\ tm.gui = "idle")
           => ~exam_started']_vars

(***************************************************************************)
(* C15: at most one countdown is active at any time: starting the exam     *)
(* again, while a countdown runs or while an old tick is still scheduled   *)
(* after an unlock, leaves one scheduled tick, and each tick takes exactly *)
(* one second off the counter.                                             *)
(***************************************************************************)
C15_OneCountdown ==
    /\ tm.after <= 1
    /\ tm.gui = "sync_loop" => tm.after = 0

(***************************************************************************)
(* C16: a tick of the running countdown always completes its broadcast,    *)
(* takes its second off the counter and schedules the next tick, whatever  *)
(* happens to the sends and to the registry meanwhile.                     *)
(***************************************************************************)
C16_TickAlwaysReschedules ==
    [][(tm.gui = "sync_loop" /\ tm'.gui = "idle")
           => /\ exam_time_remaining' = exam_time_remaining - 1
              /\ tm'.after = tm.after + 1]_vars

C18_UnlockResets ==
    [][/\ ~exam_started'
           => /\ exam_time_remaining' = 0
              /\ ~tm'.timer_running
              /\ tm'.gui \notin {"sync_loop", "timeup_loop"}
              /\ tm'.time_up = tm.time_up
       /\ \A c \in Conns :
             /\ (last_cmd' = <<c, "LOGIN">> /\ ncmds' # ncmds /\ ~exam_started)
                    => reply'[c] # <<RGirisYasak>>
             /\ (last_cmd' = <<c, "STOR">> /\ ncmds' # ncmds /\ ~exam_started
                    /\ student_no[c] # UNKNOWN)
                    => reply'[c] = <<RYuklemeYasak>>]_vars

C18_Witness ==
    /\ ~exam_started
    /\ tm.starts = 1
    /\ tm.after = 1
    /\ last_cmd = <<1, "STOR">>
    /\ reply[1] = <<RYuklemeYasak>>

(***************************************************************************)
(* C19: when one read of the control channel holds several command lines,  *)
(* each line is dispatched as its own command, in the order of arrival.    *)
(***************************************************************************)
C19_EachLineDispatched ==
    rd.c # NoConn =>
        rd.dispatched = [k \in 1..Len(rd.lines) |-> upper(<<rd.lines[k][1]>>)]

(***************************************************************************)
(* C20: every change that the login path makes to the Pending-Login        *)
(* registry, the lazy purge at the start of USER and PASS included, is     *)
(* made by a step of a section that holds the login lock.                  *)
(***************************************************************************)
UnderLoginLock(c) ==
    /\ pc[c] \in {"user_lock", "pass_lock", "user_reply"}
    /\ pc'[c] # pc[c]

C20_RegistryWritesUnderLock ==
    [][pending_logins' # pending_logins
           => \E c \in Conns : UnderLoginLock(c)]_vars

(***************************************************************************)
(* C21: a command whose keyword is not in the command table is answered    *)
(* 500; the session goes on unless the reply cannot be sent; the           *)
(* session's identity, passive socket and passive port and both            *)
(* registries stay as they were.                                           *)
(***************************************************************************)
C21_UnknownGets500 ==
    [][(ncmds' # ncmds /\ last_cmd'[2] \notin commands)
           => LET c == last_cmd'[1]
              IN  /\ reply'[c] \in {<<R500>>, <<SendFailed>>}
                  /\ (pc'[c] = "ending") <=> (reply'[c] = <<SendFailed>>)
                  /\ pc'[c] \in {"loop", "ending"}
                  /\ UNCHANGED <<student_no, pending_username,
                                 passive_data_socket, passive_data_port,
                                 connected_students, pending_logins>>]_vars

C21_Witness ==
    \E c \in Active :
        /\ last_cmd = <<c, "NOOP">>
        /\ reply[c] = <<R500>>
        /\ pc[c] = "loop"
        /\ authed[c]
        /\ passive_data_socket[c] # 0

(***************************************************************************)
(* C22: PING is answered PONG in every session state; it changes nothing   *)
(* but the last activity of the sender's own Identity Registry entry, if   *)
(* it has one, and the connection stays open.                              *)
(***************************************************************************)
C22_PingOnlyOwnEntry ==
    [][(ncmds' # ncmds /\ last_cmd'[2] = "PING")
           => LET c == last_cmd'[1]
              IN  /\ sock'[c] = "open" => reply'[c] = <<RPong>> /\ pc'[c] = "loop"
                  /\ \A i \in Identities :
                        last_activity'[i] # last_activity[i]
                            => connected_students[i] = c
                  /\ UNCHANGED <<student_no, pending_username,
                                 passive_data_socket, passive_data_port,
                                 connected_students, pending_logins,
                                 exam_started, exam_time_remaining>>]_vars

(***************************************************************************)
(* C23: a PASS on a session with no pending username is answered 503,      *)
(* changes neither registry, leaves the session as unauthenticated as it   *)
(* was and does not end it.                                                *)
(***************************************************************************)
C23_PassWithoutUser503 ==
    [][(ncmds' # ncmds /\ last_cmd'[2] = "PASS"
            /\ pending_username[last_cmd'[1]] = NoUser)
           => LET c == last_cmd'[1]
              IN  /\ reply'[c] = <<R503>>
                  /\ pc'[c] = "loop"
                  /\ sock'[c] = "open"
                  /\ UNCHANGED <<connected_students, pending_logins,
                                 student_no, pending_username, authed>>]_vars

C23_Witness ==
    \E c \in Active :
        /\ last_cmd = <<c, "PASS">>
        /\ reply[c] = <<R503>>
        /\ pc[c] = "loop"
        /\ ~authed[c]
        /\ student_no[c] = UNKNOWN
        /\ \A i \in Identities :
              connected_students[i] # c /\ pending_logins[i].conn # c

(***************************************************************************)
(* C24: on a successful PASS the registry entry is written before 230 is   *)
(* sent; when the exam runs with time remaining exactly one CMD:SYNC line  *)
(* follows the 230, and none when no exam runs.                            *)
(***************************************************************************)
C24_EntryThen230ThenSync ==
    [][\A c \in Conns :
          (pc[c] = "pass_lock" /\ pc'[c] # "pass_lock" /\ reply'[c][1] = R230)
              => /\ connected_students'[pending_username[c]] = c
                 /\ student_no'[c] = pending_username[c]
                 /\ IF exam_started /\ exam_time_remaining > 0
                    THEN \/ reply'[c] = <<R230, RSync>>
                         \/ reply'[c] = <<R230, SendFailed>>
                                /\ sock[c] # "open"
                    ELSE reply'[c] = <<R230>>]_vars

C24_Witness ==
    \E c \in Active :
        /\ reply[c] = <<R230, RSync>>
        /\ exam_started
        /\ exam_time_remaining > 0
        /\ connected_students[student_no[c]] = c

(***************************************************************************)
(* C25: for every dotted IPv4 address and every port p in 1..65535 the     *)
(* port parsed from the formatted announce is p; the two announced bytes   *)
(* are p div 256 and p mod 256, both in 0..255, and the address octets     *)
(* have no part in the result.                                             *)
(***************************************************************************)
C25_PassiveRoundTrip ==
    (calc.fn = "passive" /\ calc.at = "client")
        => LET parts == PassiveParts(calc.msg)
           IN  /\ calc.result = [none |-> FALSE, val |-> calc.port]
               /\ Len(parts) = 6
               /\ parts[5] = str(calc.port \div 256)
               /\ parts[6] = str(calc.port % 256)
               /\ int(parts[5]) \in 0..255
               /\ int(parts[6]) \in 0..255
               /\ \A ip \in Addresses :
                     parse_passive_port(
                         format_passive_response(ip, calc.port)) = calc.result

C25_Witness ==
    /\ calc.fn = "passive"
    /\ calc.at = "client"
    /\ calc.port = DATA_PORT_MAX
    /\ calc.ip = Dotted(192, 168, 1, 255)
    /\ calc.result = [none |-> FALSE, val |-> DATA_PORT_MAX]

(***************************************************************************)
(* C26: for 4-character secret and guess, plus is the number of positions  *)
(* holding the same character, minus is the number of digits shared with   *)
(* multiplicity less plus, is_clean_miss holds exactly when no digit is    *)
(* shared; so 0 <= minus and plus + minus <= 4.  A secret or guess of      *)
(* another length raises ValueError.                                       *)
(***************************************************************************)
C26_EvaluateGuess ==
    (calc.fn = "evaluate_guess" /\ calc.at # "call")
        => LET secret == calc.secret
               guess == calc.guess
               r == calc.result
               same == {k \in 1..SecretLength : secret[k] = guess[k]}
               common == {secret[k] : k \in 1..Len(secret)}
                             \cap {guess[k] : k \in 1..Len(guess)}
           IN  IF Len(secret) = SecretLength /\ Len(guess) = SecretLength
               THEN /\ calc.at = "return"
                    /\ r.plus = Cardinality(same)
                    /\ r.minus = SumOver(common, secret, guess) - r.plus
                    /\ r.is_clean_miss <=> common = {}
                    /\ 0 <= r.minus
                    /\ r.plus + r.minus <= SecretLength
               ELSE calc.at = "raise"

C26_Witness ==
    /\ calc.fn = "evaluate_guess"
    /\ calc.at = "return"
    /\ calc.secret = <<"9", "8", "7", "6">>
    /\ calc.guess = <<"8", "9", "7", "7">>
    /\ calc.result = [raised |-> FALSE, plus |-> 1, minus |-> 2,
                      is_clean_miss |-> FALSE]

(***************************************************************************)
(* C27: the score of a guess is 2*plus + minus, plus 5 for a clean miss,   *)
(* plus max(30, 120 - 20*(position-1)) when a position is given; a clean   *)
(* miss with no position scores exactly 5 and a fully correct guess at     *)
(* position 1 scores more than 120.                                        *)
(***************************************************************************)
C27_GuessScore ==
    (calc.fn = "calculate_guess_score" /\ calc.at = "return")
        => LET bonus == IF calc.is_clean_miss THEN 5 ELSE 0
               decay == 120 - 20 * (calc.position.val - 1)
               base == IF calc.position.none THEN 0
                       ELSE IF decay < 30 THEN 30 ELSE decay
           IN  /\ calc.result = 2 * calc.plus + calc.minus + bonus + base
               /\ (calc.is_clean_miss /\ calc.position.none
                       /\ calc.plus = 0 /\ calc.minus = 0)
                     => calc.result = 5
               /\ (calc.plus = SecretLength /\ calc.position = Some(1))
                     => calc.result > 120

C27_Witness ==
    /\ calc.fn = "calculate_guess_score"
    /\ calc.at = "return"
    /\ calc.position = Some(MaxPosition)
    /\ calc.plus = SecretLength
    /\ calc.minus = 0
    /\ ~calc.is_clean_miss
    /\ calc.result = 38

(***************************************************************************)
(* C28: every value generate_secret(unique_digits=True) can return is a    *)
(* string of exactly four decimal digits that are pairwise different.      *)
(***************************************************************************)
C28_SecretUniqueDigits ==
    (calc.fn = "generate_secret" /\ calc.at = "return" /\ calc.unique_digits)
        => /\ Len(calc.result) = 4
           /\ \A k \in 1..Len(calc.result) : IsDigit(calc.result[k])
           /\ \A j, k \in 1..Len(calc.result) :
                 j # k => calc.result[j] # calc.result[k]

C28_Witness ==
    /\ calc.fn = "generate_secret"
    /\ calc.at = "return"
    /\ calc.unique_digits
    /\ calc.result = <<"9", "0", "4", "1">>

(***************************************************************************)
(* C29: while connection A owns the pending-login entry of identity i and  *)
(* the entry is younger than the timeout, a USER i or a PASS for i of      *)
(* another connection B is answered 550 ZATEN_BAGLI and ends B's session,  *)
(* and A's entry stays as it is, so that A's PASS with the right secret    *)
(* is answered 230.                                                        *)
(***************************************************************************)
OwnedByOther(c, i) ==
    /\ pending_logins[i] # NoPending
    /\ pending_logins[i].conn # c
    /\ now - pending_logins[i].ts <= pending_login_timeout

Purges(c) == pc[c] = "loop" /\ pc'[c] \in {"user_lock", "pass_lock"}

Stale(e) == e # NoPending /\ now - e.ts > pending_login_timeout

WaitsForPassword(o, i) ==
    /\ pc[o] # "ended"
    /\ \/ pending_username[o] = i
       \/ pc[o] = "user_reply" /\ cur_user[o] = i

C31_PendingDiesWithOwner ==
    [][\A c \in Conns :
          (pc[c] = "user_lock" /\ pc'[c] = "ending"
               /\ reply'[c] = <<RZaten>>
               /\ connected_students[cur_user[c]] = NoConn)
             => WaitsForPassword(pending_logins[cur_user[c]].conn,
                                 cur_user[c])]_vars

(***************************************************************************)
(* C32: in every reachable state a connection is recorded in the Identity  *)
(* Registry under at most one identity.                                    *)
(***************************************************************************)
C32_OneIdentityPerConnection ==
    \A c \in Conns :
        Cardinality({i \in Identities : connected_students[i] = c}) <= 1

(***************************************************************************)
(* C33: in the lock-free handler, of the connections that send PASS or     *)
(* LOGIN with valid credentials for one identity at most one is answered   *)
(* 230, and the registry entry belongs to the connection answered 230.     *)
(***************************************************************************)
C33_LockFreeOne230 ==
    \A i \in Identities :
        LET in == {c \in Conns : authed[c] /\ student_no[c] = i
                                    /\ pc[c] = "loop"}
        IN  /\ Cardinality(in) <= 1
            /\ \A c \in in : connected_students[i] = c


(***************************************************************************)
(* C34: with an unknown expected size (zero) receive_file_data reads until *)
(* the peer has closed the data channel and returns every byte the peer    *)
(* delivered on it.                                                        *)
(***************************************************************************)
Delivered_bytes == AppendRuns(rt.data, rt.wire)

C34_UnknownSizeReadsToClose ==
    (rt.rpc = "returned" /\ rt.expected = 0)
        => /\ rt.closed
           /\ rt.wire = <<>>
           /\ rt.received = rt.sent + rt.partial

(***************************************************************************)
(* C35: in receive_file_data the running count is the length of the        *)
(* collected chunks and never exceeds expected_size; when the peer closes  *)
(* early the function returns the bytes received so far, fewer than        *)
(* expected_size, and does not raise.                                      *)
(***************************************************************************)
C35_ReceiveCount ==
    /\ rt.received = BytesIn(rt.data)
    /\ rt.received <= rt.expected
    /\ rt.rpc = "returned" => \/ rt.received = rt.expected
                              \/ rt.eof /\ rt.received < rt.expected
    /\ rt.eof => /\ rt.rpc = "returned"
                 /\ rt.rerr = NoError
                 /\ rt.received = rt.sent + rt.partial
    /\ rt.rpc = "raised" => ~rt.eof /\ rt.received < rt.expected

C35_Witness ==
    /\ rt.rpc = "returned"
    /\ rt.eof
    /\ rt.received = MinBuffer + 1
    /\ rt.expected = rt.total
    /\ rt.total = 2 * MinBuffer + 1

(***************************************************************************)
(* C36: send_file_data returns len(data), and only once every byte of the  *)
(* data is written, or it raises FileTransferError with expected_size =    *)
(* len(data) and actual_size = the bytes of the writes that completed,     *)
(* fewer than len(data); handle_retr answers 226 only after it returned.   *)
(***************************************************************************)
C36_SendAllOrRaise ==
    /\ rt.spc = "returned" => /\ rt.sret = rt.total
                              /\ Delivered_bytes = WholeFile(rt.total)
    /\ rt.spc = "raised" => /\ rt.serr.expected_size = rt.total
                            /\ rt.serr.actual_size < rt.total
                            /\ rt.serr.actual_size + rt.partial
                                  = BytesIn(Delivered_bytes)
    /\ rt.spc # "raised" => rt.serr = NoError
    /\ rt.retr = <<R226>> => rt.spc = "returned"
    /\ rt.retr # <<>> /\ rt.spc = "raised" => rt.retr = <<RYarim>>

C36_Witness ==
    /\ rt.spc = "raised"
    /\ rt.serr = FileTransferError(2 * MinBuffer + 1, MinBuffer)
    /\ rt.partial = 1
    /\ rt.retr = <<RYarim>>


(***************************************************************************)
(* C37: a STOR or RETR that gets as far as its data port uses the passive  *)
(* listening socket the session holds from an earlier PASV, binds nothing  *)
(* and sends 150 without a 227 before it; when the session holds none it   *)
(* binds one new port and sends 227 and then 150, or 550 when the bind     *)
(* fails.                                                                  *)
(***************************************************************************)
TransferStep(c) ==
    /\ ncmds' = ncmds + 1
    /\ last_cmd' \in {<<c, "STOR">>, <<c, "RETR">>}
    /\ effects'.bind \/ effects'.accept

C37_PassiveReuse ==
    [][\A c \in Conns :
          TransferStep(c) =>
             LET ps == passive_data_socket[c]
                 pp == passive_data_port[c]
             IN  IF ps # 0 /\ pp # 0
                 THEN /\ ~effects'.bind
                      /\ effects'.accept
                      /\ Len(listener') = Len(listener)
                      /\ \A k \in DOMAIN listener :
                            k # ps => listener'[k] = listener[k]
                      /\ reply'[c][1] = R150
                      /\ \A k \in DOMAIN reply'[c] : reply'[c][k] # R227
                 ELSE /\ effects'.bind
                      /\ \A k \in DOMAIN listener : listener'[k] = listener[k]
                      /\ \/ /\ Len(listener') = Len(listener) + 1
                            /\ SubSeq(reply'[c], 1, 2) = <<R227, R150>>
                            /\ \A k \in 3..Len(reply'[c]) :
                                  reply'[c][k] # R227
                         \/ /\ listener' = listener
                            /\ reply'[c] = <<RCantOpen>>]_vars

C37_Witness ==
    /\ last_cmd = <<1, "STOR">>
    /\ reply[1] = <<R150, RReady, R226>>
    /\ ~effects.bind
    /\ effects.save
    /\ Len(listener) = 1
    /\ listener[1] = "closed"


(***************************************************************************)
(* C38: a session never keeps a closed passive listening socket: PASV      *)
(* closes the socket held before it binds, and after a PASV, STOR or RETR  *)
(* that closed a listening socket the session's passive socket and port    *)
(* are null.                                                               *)
(***************************************************************************)
C38_NoClosedPassive ==
    /\ \A c \in Conns :
          passive_data_socket[c] # 0 =>
              listener[passive_data_socket[c]] = "listening"
    /\ \A c \in Conns : passive_data_socket[c] = 0 <=> passive_data_port[c] = 0


(***************************************************************************)
(* C39: a lobby that is running makes progress: when the deadline of its   *)
(* round has passed, the round eventually ends: the next round starts,     *)
(* with a deadline ahead of the clock, or the game finishes.               *)
(***************************************************************************)
RoundOverdue ==
    lobby.status = "running" /\ lobby.clock > lobby.round_deadline

C39_RunningMakesProgress ==
    RoundOverdue ~> (lobby.status = "finished" \/ ~RoundOverdue)

=============================================================================
